---------------------------- MODULE Spec2Model ----------------------------
(***************************************************************************)
(* SnipeBT deep-learning pipeline: the serving loop of inference.py        *)
(* (InferenceServer) and the feature assembly of preprocessor.py           *)
(* (DataPreprocessor).                                                     *)
(*                                                                         *)
(* Numbers.  A Python float is an integer here.  Dimensionless quantities  *)
(* (scaled features, pattern features, logits, probabilities) are in       *)
(* units of 1/ONE; raw market quantities are integers in the unit of       *)
(* their feature (prices and macd/ema in 1e-4, volumes in 1, liquidity,    *)
(* market cap and 24h volume in 1e3, age in 0.1, bbands width in 1e-2).    *)
(* NaN, +inf and JSON null are three values outside the finite range.      *)
(* Division rounds down where the floating-point division rounds.          *)
(*                                                                         *)
(* Matrices.  A 2-d array is held as its runs of equal consecutive rows,   *)
(* <<[n |-> 100, row |-> r]>> being 100 rows r; the operations on arrays   *)
(* act on the rows the runs stand for.                                     *)
(*                                                                         *)
(* Text.  The loop is modelled from the decoded lines that iterating       *)
(* sys.stdin yields.  A line is [pad, body]: body is the text between the  *)
(* surrounding whitespace, pad tells whether there is whitespace beside    *)
(* the newline.  A body is empty, not JSON ("garbage"), or the JSON text   *)
(* of a document.                                                          *)
(***************************************************************************)
EXTENDS Integers, Sequences, FiniteSets, TLC

\* ------------------------------------------------------------------ bounds
\* number of lines the caller writes to the pipe during one run
MaxLines == 3
\* number of unread lines the pipe holds before the caller's write blocks
PipeCap == 1
\* number of examples in the largest training data file
MaxExamples == 4
\* number of requests the caller writes to a server started on the scalers
\* of a preprocessing run
MaxRequests == 2
\* largest price of the last candle of an example given to the pattern
\* calculator
MaxPrice == 5

\* ------------------------------------------------------- program constants
\* inference.py: candles.shape != (100, 5)
W == 100
\* inference.py: context.shape != (5,), indicators.shape != (5,)
NCONTEXT == 5
NINDICATORS == 5
\* inference.py: patterns.shape != (8,)
NPATTERNS == 8
\* number of candle features [open, high, low, close, volume]
NCANDLE == 5

\* fixed-point unit of dimensionless floats: 1.0 is ONE
ONE == 10000
HALF == ONE \div 2

\* ------------------------------------------------------------------ floats
NaN == 2000000001
Inf == 2000000002
None == 2000000003

IsNaN(x) == x = NaN
IsInf(x) == x = Inf
IsFinite(x) == x < 2000000000

\* float subtraction, multiplication by an integer, division, absolute value
FSub(a, b) ==
  IF IsNaN(a) \/ IsNaN(b) THEN NaN
  ELSE IF IsInf(a) /\ IsInf(b) THEN NaN
  ELSE IF IsInf(a) \/ IsInf(b) THEN Inf
  ELSE a - b

FAdd(a, b) ==
  IF IsNaN(a) \/ IsNaN(b) THEN NaN
  ELSE IF IsInf(a) \/ IsInf(b) THEN Inf
  ELSE a + b

FAbs(a) == IF ~IsFinite(a) THEN a ELSE IF a < 0 THEN 0 - a ELSE a

FScale(a, k) == IF ~IsFinite(a) THEN a ELSE a * k

FHalve(a) == IF ~IsFinite(a) THEN a ELSE a \div 2

\* (x in raw units) / (scale in the same raw units) -> dimensionless
FDiv(a, b) ==
  IF IsNaN(a) \/ IsNaN(b) THEN NaN
  ELSE IF IsInf(a) THEN Inf
  ELSE (a * ONE) \div b

\* ---------------------------------------------------------- Python results
Ok(v) == [ok |-> TRUE, val |-> v]
Raise(e, m) == [ok |-> FALSE, exc |-> e, msg |-> m]

\* sum of s[lo..hi], by halves
RECURSIVE SumRange(_, _, _)
SumRange(s, lo, hi) ==
  IF lo > hi THEN 0
  ELSE IF lo = hi THEN s[lo]
  ELSE LET mid == (lo + hi) \div 2
       IN  SumRange(s, lo, mid) + SumRange(s, mid + 1, hi)

SeqSum(s) == SumRange(s, 1, Len(s))

Range(s) == {s[i] : i \in 1..Len(s)}

\* ------------------------------------------------------------ JSON values
\* a JSON array of numbers, an array of arrays of numbers, a bare number
Vec(a) == [nd |-> 1, a |-> a]
Mat(a) == [nd |-> 2, a |-> a]
Num(x) == [nd |-> 0, a |-> <<x>>]

\* parsed documents: an object (a function from its keys), or something else
Obj(f) == [t |-> "object", v |-> f]
NonObj(t) == [t |-> t, v |-> <<>>]

\* json.loads on the stripped text of a line
json_loads(body) ==
  IF body.kind = "json" THEN Ok(body.doc)
  ELSE Raise("JSONDecodeError", "Expecting value")

\* json.dumps of a result dict: the text of that document
json_dumps(result) == [kind |-> "json", doc |-> result]

\* line.strip(): the surrounding whitespace and the newline are removed
strip(l) == l.body

\* raw_input[key]
getitem(raw_input, key) ==
  IF raw_input.t = "object"
  THEN IF key \in DOMAIN raw_input.v THEN Ok(raw_input.v[key])
       ELSE Raise("KeyError", key)
  ELSE Raise("TypeError", "not subscriptable with a str")

\* --------------------------------------------------------------- numpy
NoneToNaN(x) == IF x = None THEN NaN ELSE x

\* a run of n equal rows, and the number of rows of a matrix
Run(n, row) == [n |-> n, row |-> row]
Rows(m) == SeqSum([i \in 1..Len(m) |-> m[i].n])

\* np.array(value, dtype=np.float32): shape and data, None becomes nan;
\* rows of different lengths are rejected
np_array(value) ==
  IF value.nd = 0 THEN Ok([shape |-> <<>>, data |-> <<NoneToNaN(value.a[1])>>])
  ELSE IF value.nd = 1
  THEN Ok([shape |-> <<Len(value.a)>>,
           data |-> [i \in 1..Len(value.a) |-> NoneToNaN(value.a[i])]])
  ELSE IF value.a = <<>> THEN Ok([shape |-> <<0>>, data |-> <<>>])
  ELSE IF \E i \in 1..Len(value.a) : Len(value.a[i].row) # Len(value.a[1].row)
  THEN Raise("ValueError", "inhomogeneous shape")
  ELSE Ok([shape |-> <<Rows(value.a), Len(value.a[1].row)>>,
           data |-> [i \in 1..Len(value.a) |->
                      Run(value.a[i].n,
                          [j \in 1..Len(value.a[1].row) |->
                             NoneToNaN(value.a[i].row[j])])]])

\* a.reshape(1, -1) of a 1-d array
reshape_row(data) == <<Run(1, data)>>

\* ------------------------------------------------------------- scalers
\* the per-feature location of a fitted scaler
Center(scaler) ==
  IF scaler.type = "RobustScaler" THEN scaler.center_ ELSE scaler.mean_

\* scaler.transform(X) for a 2-d X (rows of features): infinities and a
\* wrong feature count are rejected, nan passes; (x - center[f]) / scale[f]
transform(scaler, X) ==
  IF \E i \in 1..Len(X) : \E j \in 1..Len(X[i].row) : IsInf(X[i].row[j])
  THEN Raise("ValueError", "Input contains infinity")
  ELSE IF \E i \in 1..Len(X) : Len(X[i].row) # scaler.n_features_in_
  THEN Raise("ValueError", "X has a different number of features")
  ELSE Ok([i \in 1..Len(X) |->
            Run(X[i].n,
                [f \in 1..Len(X[i].row) |->
                   FDiv(FSub(X[i].row[f], Center(scaler)[f]), scaler.scale_[f])])])


\* ------------------------------------------------------------- the model
\* torch.sigmoid in units of 1/ONE: the argument is clamped to [-3, 3] and
\* rounded to a multiple of 0.05, except for the two logits of the
\* probabilities 0.7 and 0.05, which are kept exact
SigmoidTable ==
    << 474, 497, 522, 547, 573, 601, 630, 660, 691, 724, 759,
       794, 832, 871, 911, 953, 998, 1043, 1091, 1141, 1192, 1246,
       1301, 1359, 1419, 1480, 1545, 1611, 1680, 1751, 1824, 1900, 1978,
       2059, 2142, 2227, 2315, 2405, 2497, 2592, 2689, 2789, 2891, 2994,
       3100, 3208, 3318, 3430, 3543, 3659, 3775, 3894, 4013, 4134, 4256,
       4378, 4502, 4626, 4750, 4875, 5000, 5125, 5250, 5374, 5498, 5622,
       5744, 5866, 5987, 6106, 6225, 6341, 6457, 6570, 6682, 6792, 6900,
       7006, 7109, 7211, 7311, 7408, 7503, 7595, 7685, 7773, 7858, 7941,
       8022, 8100, 8176, 8249, 8320, 8389, 8455, 8520, 8581, 8641, 8699,
       8754, 8808, 8859, 8909, 8957, 9002, 9047, 9089, 9129, 9168, 9206,
       9241, 9276, 9309, 9340, 9370, 9399, 9427, 9453, 9478, 9503, 9526 >>

LOGIT_07 == 8473
LOGIT_005 == 0 - 29444
SIG_STEP == 500
SIG_MAX == 30000

sigmoid(x) ==
  IF IsNaN(x) THEN NaN
  ELSE IF IsInf(x) THEN ONE
  ELSE IF x = LOGIT_07 THEN 7000
  ELSE IF x = LOGIT_005 THEN 500
  ELSE LET c == IF x > SIG_MAX THEN SIG_MAX
                ELSE IF x < 0 - SIG_MAX THEN 0 - SIG_MAX ELSE x
           k == (c + SIG_MAX + (SIG_STEP \div 2)) \div SIG_STEP
       IN  SigmoidTable[k + 1]

\* A checkpoint.  The network between its inputs and its three heads is
\* reduced to one linear map per head: the head's bias, one weight per
\* candle feature (applied to the mean over the time steps) and one weight
\* per position of the combined vector, weights in tenths.
Checkpoint(bias, wcandles, wcombined) ==
  [bias |-> bias, wcandles |-> wcandles, wcombined |-> wcombined]

Zeros(n) == [i \in 1..n |-> 0]

\* mean over the time steps of feature f of a (T, 5) matrix
TimeMean(m, f) == SeqSum([i \in 1..Len(m) |-> m[i].n * m[i].row[f]]) \div Rows(m)

\* one head before its activation
HeadLinear(h, state_dict, cmean, x, keep) ==
  state_dict.bias[h]
  + keep * ((SeqSum([f \in 1..Len(cmean) |-> state_dict.wcandles[h][f] * cmean[f]])
            + SeqSum([i \in 1..Len(x) |-> state_dict.wcombined[h][i] * x[i]]))
           \div 10)

AllFinite2(m) == \A i \in 1..Len(m) : \A j \in 1..Len(m[i].row) : IsFinite(m[i].row[j])
AllFinite1(v) == \A i \in 1..Len(v) : IsFinite(v[i])

\* forward: the three output heads on the pooled candle features cmean and
\* the combined vector x
output_heads(state_dict, cmean, x, keep) ==
  << sigmoid(HeadLinear(1, state_dict, cmean, x, keep)),
     HeadLinear(2, state_dict, cmean, x, keep),
     sigmoid(HeadLinear(3, state_dict, cmean, x, keep)) >>

\* SnipeBTModel.forward(candles, combined) on a batch of one.  drop is the
\* dropout draw: it acts only while the module is in training mode.
\* Returns (profitable, max_profit, rug_risk).
forward(model, candles, combined, drop) ==
  IF Len(candles.shape) # 3 \/ candles.shape[3] # NCANDLE
  THEN Raise("RuntimeError", "input.size(-1) must be equal to input_size")
  ELSE IF combined.shape # <<1, NCONTEXT + NINDICATORS + NPATTERNS>>
  THEN Raise("RuntimeError", "mat1 and mat2 shapes cannot be multiplied")
  ELSE IF ~AllFinite2(candles.data[1]) \/ ~AllFinite1(combined.data[1])
  THEN Ok(<<NaN, NaN, NaN>>)
  ELSE Ok(output_heads(model.state_dict,
                       [f \in 1..NCANDLE |-> TimeMean(candles.data[1], f)],
                       combined.data[1],
                       IF model.training /\ drop = 1 THEN 0 ELSE 1))

\* ------------------------------------------------------- InferenceServer
\* torch.tensor(a, dtype=float32).unsqueeze(0)
unsqueeze0(shape, data) == [shape |-> <<1>> \o shape, data |-> <<data>>]

\* a validation that forgets the patterns
validate_shapes_nopatterns(candles, context, indicators, patterns) ==
  IF candles.shape # <<W, NCANDLE>>
  THEN Raise("ValueError", "Expected candles shape (100, 5)")
  ELSE IF context.shape # <<NCONTEXT>>
  THEN Raise("ValueError", "Expected context shape (5,)")
  ELSE IF indicators.shape # <<NINDICATORS>>
  THEN Raise("ValueError", "Expected indicators shape (5,)")
  ELSE Ok(TRUE)

\* the shape validation of preprocess, in the order of its four tests
validate_shapes(candles, context, indicators, patterns) ==
  IF candles.shape # <<W, NCANDLE>>
  THEN Raise("ValueError", "Expected candles shape (100, 5)")
  ELSE IF context.shape # <<NCONTEXT>>
  THEN Raise("ValueError", "Expected context shape (5,)")
  ELSE IF indicators.shape # <<NINDICATORS>>
  THEN Raise("ValueError", "Expected indicators shape (5,)")
  ELSE IF patterns.shape # <<NPATTERNS>>
  THEN Raise("ValueError", "Expected patterns shape (8,)")
  ELSE Ok(TRUE)

\* the scaler object after a fit_transform(X) in the place of transform(X)
after_transform_refit(scaler, X) ==
  IF scaler.type = "RobustScaler" THEN [scaler EXCEPT !.center_ = X[1].row]
  ELSE [scaler EXCEPT !.mean_ = X[1].row]

\* the scaler object after scaler.transform(X): transform reads the fitted
\* statistics and leaves them as they are
after_transform(scaler, X) == scaler

\* what preprocess leaves when it raises r after n scaler transforms
Raised(self, r, n) ==
  [ok |-> FALSE, exc |-> r.exc, msg |-> r.msg,
   transforms |-> n, scalers |-> self.scalers]

\* np.array(raw_input[key], dtype=np.float32), g being raw_input[key]
asarray(g) == IF g.ok THEN np_array(g.val) ELSE g

\* a concatenation that puts the patterns first
concatenate_patterns_first(context_scaled, indicators_scaled, patterns_scaled) ==
  patterns_scaled \o context_scaled \o indicators_scaled

\* np.concatenate([context_scaled, indicators_scaled, patterns_scaled])
concatenate(context_scaled, indicators_scaled, patterns_scaled) ==
  context_scaled \o indicators_scaled \o patterns_scaled

\* preprocess, from the scaled features on: the two tensors
preprocess_tensors(candles_scaled, combined, used) ==
  [ok |-> TRUE,
   val |-> [candles |-> unsqueeze0(<<W, NCANDLE>>, candles_scaled),
            combined |-> unsqueeze0(<<Len(combined)>>, combined)],
   transforms |-> 3, scalers |-> used]

\* preprocess, from `# Scale features` on: t1, t2, t3 are the three
\* transform calls in their order, used the scalers as the calls leave them
preprocess_scale(self, patterns, t1, t2, t3, used) ==
  IF ~t1.ok THEN Raised(self, t1, 1)
  ELSE IF ~t2.ok THEN Raised(self, t2, 2)
  ELSE IF ~t3.ok THEN Raised(self, t3, 3)
  ELSE preprocess_tensors(t1.val,
                          concatenate(t2.val[1].row, t3.val[1].row, patterns.data),
                          used)

\* preprocess, from `# Validate shapes` on
preprocess_validate(self, candles, context, indicators, patterns, valid) ==
  IF ~valid.ok THEN Raised(self, valid, 0)
  ELSE preprocess_scale(self, patterns,
         transform(self.scalers.candle_scaler, candles.data),
         transform(self.scalers.context_scaler, reshape_row(context.data)),
         transform(self.scalers.indicator_scaler, reshape_row(indicators.data)),
         [candle_scaler |->
            after_transform(self.scalers.candle_scaler, candles.data),
          context_scaler |->
            after_transform(self.scalers.context_scaler, reshape_row(context.data)),
          indicator_scaler |->
            after_transform(self.scalers.indicator_scaler,
                            reshape_row(indicators.data))])

\* preprocess, after `# Convert to numpy arrays`: a1..a4 are the four
\* conversions in their order
preprocess_arrays(self, a1, a2, a3, a4) ==
  IF ~a1.ok THEN Raised(self, a1, 0)
  ELSE IF ~a2.ok THEN Raised(self, a2, 0)
  ELSE IF ~a3.ok THEN Raised(self, a3, 0)
  ELSE IF ~a4.ok THEN Raised(self, a4, 0)
  ELSE preprocess_validate(self, a1.val, a2.val, a3.val, a4.val,
                           validate_shapes(a1.val, a2.val, a3.val, a4.val))

\* InferenceServer.preprocess(raw_input).  The result also carries the
\* number of scaler transforms that were called and the server's scalers
\* as the call leaves them.
preprocess(self, raw_input) ==
  preprocess_arrays(self,
                    asarray(getitem(raw_input, "candles")),
                    asarray(getitem(raw_input, "context")),
                    asarray(getitem(raw_input, "indicators")),
                    asarray(getitem(raw_input, "patterns")))

\* a result dict that reports an error but keeps the risk at 0
ErrorResult_failopen(text) ==
  [error |-> text, profitable |-> 0, max_profit |-> 0,
   rug_risk |-> 0, confidence |-> 0]

\* the fail-closed result dict of predict and run
ErrorResult(text) ==
  [error |-> text, profitable |-> 0, max_profit |-> 0,
   rug_risk |-> ONE, confidence |-> 0]

\* predict: the confidence, the distance from the 0.5 decision boundary
overall_confidence(profitable_prob, rug_prob) ==
  FHalve(FAdd(FScale(FAbs(FSub(profitable_prob, HALF)), 2),
              FScale(FAbs(FSub(rug_prob, HALF)), 2)))

\* predict: the result dict of the try block
predict_result(self, pre, returned, profitable_prob, rug_prob) ==
  [result |-> [profitable |-> profitable_prob,
               max_profit |-> returned[2],
               rug_risk |-> rug_prob,
               confidence |-> overall_confidence(profitable_prob, rug_prob)],
   self |-> self, transforms |-> pre.transforms, invocations |-> 1,
   returned |-> returned, combined |-> pre.val.combined.data[1]]

\* predict, after self.model(candles, combined): out is what the call gave
predict_inference(self, pre, out) ==
  IF ~out.ok
  THEN [result |-> ErrorResult(<<out.msg>>), self |-> self,
        transforms |-> pre.transforms, invocations |-> 1, returned |-> <<>>,
        combined |-> pre.val.combined.data[1]]
  ELSE predict_result(self, pre, out.val, sigmoid(out.val[1]), sigmoid(out.val[3]))

\* predict, after self.preprocess(raw_input): pre is what the call gave
predict_preprocessed(self, pre, drop) ==
  IF ~pre.ok
  THEN [result |-> ErrorResult(<<pre.msg>>),
        self |-> [self EXCEPT !.scalers = pre.scalers],
        transforms |-> pre.transforms, invocations |-> 0, returned |-> <<>>,
        combined |-> <<>>]
  ELSE predict_inference([self EXCEPT !.scalers = pre.scalers], pre,
                         forward(self.model, pre.val.candles, pre.val.combined, drop))

\* InferenceServer.predict(raw_input): the result dict, with the number of
\* scaler transforms and model invocations made, the tuple the model
\* returned, the combined vector it built (<<>>: none), and the server
\* object as the call leaves it
predict(self, raw_input, drop) ==
  predict_preprocessed(self, preprocess(self, raw_input), drop)

\* ------------------------------------------------------ DataPreprocessor
\* a guard that gives a scale of 0 the value 2
handle_zeros_in_scale_two(scale) == IF scale = 0 THEN 2 ELSE scale

\* sklearn's guard on a fitted scale: a scale of 0 becomes 1
handle_zeros_in_scale(scale) == IF scale = 0 THEN 1 ELSE scale

\* square root, rounded down
isqrt(v) == CHOOSE r \in 0..(v + 1) : r * r <= v /\ (r + 1) * (r + 1) > v

\* column f of a list of rows, its mean and its (population) variance
Column(X, f) == [i \in 1..Len(X) |-> X[i][f]]
Mean(col) == SeqSum(col) \div Len(col)
Deviations(col, m) == [i \in 1..Len(col) |-> (col[i] - m) * (col[i] - m)]
Variance(col) == Mean(Deviations(col, Mean(col)))

\* StandardScaler().fit(X) for a list X of rows
StandardScaler_fit(X) ==
  [type |-> "StandardScaler",
   mean_ |-> [f \in 1..Len(X[1]) |-> Mean(Column(X, f))],
   scale_ |-> [f \in 1..Len(X[1]) |->
                 handle_zeros_in_scale(isqrt(Variance(Column(X, f))))],
   var_ |-> [f \in 1..Len(X[1]) |-> Variance(Column(X, f))],
   n_features_in_ |-> Len(X[1])]

\* number of rows of a matrix whose feature f is at most v
CountLE(X, f, v) == SeqSum([i \in 1..Len(X) |-> IF X[i].row[f] <= v THEN X[i].n ELSE 0])

\* the values feature f takes in a matrix
ValuesOf(X, f) == {X[i].row[f] : i \in 1..Len(X)}

\* the k-th smallest value of feature f, k counted from 0
Kth(X, f, k) ==
  CHOOSE v \in ValuesOf(X, f) :
    /\ CountLE(X, f, v) >= k + 1
    /\ \A u \in ValuesOf(X, f) : u < v => CountLE(X, f, u) < k + 1

\* np.nanpercentile(X[:, f], 25 * q), linear interpolation; at is the
\* position 25 * q percent of the way through the sorted rows, times 4
Interpolate(X, f, at) ==
  IF at % 4 = 0 THEN Kth(X, f, at \div 4)
  ELSE Kth(X, f, at \div 4)
       + ((Kth(X, f, at \div 4 + 1) - Kth(X, f, at \div 4)) * (at % 4)) \div 4
Quartile(X, f, q) == Interpolate(X, f, q * (Rows(X) - 1))

\* RobustScaler().fit(X) for a matrix X: median and interquartile range
RobustScaler_fit(X) ==
  [type |-> "RobustScaler",
   center_ |-> [f \in 1..Len(X[1].row) |-> Quartile(X, f, 2)],
   scale_ |-> [f \in 1..Len(X[1].row) |->
                 handle_zeros_in_scale(Quartile(X, f, 3) - Quartile(X, f, 1))],
   n_features_in_ |-> Len(X[1].row)]

\* DataPreprocessor.__init__: three scalers, not fitted
DataPreprocessor_init ==
  [candle_scaler |-> [type |-> "RobustScaler", n_features_in_ |-> 0],
   context_scaler |-> [type |-> "StandardScaler", n_features_in_ |-> 0],
   indicator_scaler |-> [type |-> "StandardScaler", n_features_in_ |-> 0]]

\* load_and_preprocess: the arrays built from one example
candle_row(c) == <<c.open, c.high, c.low, c.close, c.volume>>

extract_candles(example) ==
  [i \in 1..Len(example.candles) |->
     Run(example.candles[i].n, candle_row(example.candles[i].row))]

extract_context(example) ==
  << example.context.liquidity, example.context.marketCap,
     example.context.holders, example.context.age, example.context.volume24h >>

extract_indicators(example) ==
  << example.indicators.rsi, example.indicators.macd,
     example.indicators.ema_fast, example.indicators.ema_slow,
     example.indicators.bbands_width >>

\* 1.0 if flag else 0.0
one_if(flag) == IF flag THEN ONE ELSE 0

\* an extraction that fills the patterns of an example without the field
\* with ones
extract_patterns_ones(example) ==
  IF "patterns" \in DOMAIN example
  THEN << one_if(example.patterns.has_bullish_pin),
          one_if(example.patterns.has_bearish_pin),
          one_if(example.patterns.has_bullish_engulfing),
          one_if(example.patterns.has_bearish_engulfing),
          example.patterns.wick_rejection_ratio,
          example.patterns.body_to_range_ratio,
          example.patterns.pattern_confidence,
          example.patterns.context_score >>
  ELSE [j \in 1..NPATTERNS |-> ONE]

\* load_and_preprocess: the patterns row of an example, np.zeros(8) when
\* it has no `patterns` field
extract_patterns(example) ==
  IF "patterns" \in DOMAIN example
  THEN << one_if(example.patterns.has_bullish_pin),
          one_if(example.patterns.has_bearish_pin),
          one_if(example.patterns.has_bullish_engulfing),
          one_if(example.patterns.has_bearish_engulfing),
          example.patterns.wick_rejection_ratio,
          example.patterns.body_to_range_ratio,
          example.patterns.pattern_confidence,
          example.patterns.context_score >>
  ELSE Zeros(NPATTERNS)

extract_labels(example) ==
  << IF example.labels.profitable THEN 1 ELSE 0,
     example.labels.max_profit,
     IF example.labels.rug_risk THEN 1 ELSE 0 >>

\* X.reshape(-1, features) of the (N, 100, 5) array of candles
RECURSIVE reshape_flat(_, _)
reshape_flat(X_candles, i) ==
  IF i > Len(X_candles) THEN <<>>
  ELSE X_candles[i] \o reshape_flat(X_candles, i + 1)

\* the rows of a 2-d array as a matrix, and back
AsMatrix(X) == [i \in 1..Len(X) |-> Run(1, X[i])]
AsRows(m) == [i \in 1..Len(m) |-> m[i].row]

\* np.concatenate([X_context_scaled, X_indicators_scaled, X_patterns], axis=1)
concatenate_axis1(X_context_scaled, X_indicators_scaled, X_patterns) ==
  [i \in 1..Len(X_context_scaled) |->
     X_context_scaled[i] \o X_indicators_scaled[i] \o X_patterns[i]]

\* ceil(test_size * n_samples), test_size being num / den
n_test_of(n_samples, num, den) == (n_samples * num + den - 1) \div den

\* the members of idx of class c, the classes of idx
ClassMembers(y, idx, c) == {i \in idx : y[i] = c}
ClassesOf(y, idx) == {y[i] : i \in idx}

\* _approximate_mode(class_counts, n_draws): every class gets the floor of
\* its share, the draws left over go to the largest remainders, ties are
\* broken by the random generator
approximate_mode(y, idx, n_draws) ==
  { a \in [ClassesOf(y, idx) -> 0..n_draws] :
      /\ \A c \in DOMAIN a :
           a[c] - (Cardinality(ClassMembers(y, idx, c)) * n_draws)
                    \div Cardinality(idx) \in {0, 1}
      /\ Cardinality({i \in idx : \E c \in DOMAIN a :
             /\ y[i] = c
             /\ Cardinality({j \in ClassMembers(y, idx, c) : j <= i}) <= a[c]})
           = n_draws
      /\ \A c, d \in DOMAIN a :
           ( /\ a[c] > (Cardinality(ClassMembers(y, idx, c)) * n_draws)
                         \div Cardinality(idx)
             /\ a[d] = (Cardinality(ClassMembers(y, idx, d)) * n_draws)
                         \div Cardinality(idx) )
           => (Cardinality(ClassMembers(y, idx, c)) * n_draws) % Cardinality(idx)
                >= (Cardinality(ClassMembers(y, idx, d)) * n_draws) % Cardinality(idx) }

\* train_test_split(idx, test_size=num/den, random_state=42, stratify=y[idx]):
\* the outcomes the shuffle can give, each the two index sets
train_test_split(idx, num, den, y) ==
  IF Cardinality(idx) - n_test_of(Cardinality(idx), num, den) = 0
  THEN {Raise("ValueError", "the resulting train set will be empty")}
  ELSE IF \E c \in ClassesOf(y, idx) : Cardinality(ClassMembers(y, idx, c)) < 2
  THEN {Raise("ValueError", "The least populated class in y has only 1 member")}
  ELSE IF \/ Cardinality(idx) - n_test_of(Cardinality(idx), num, den)
               < Cardinality(ClassesOf(y, idx))
          \/ n_test_of(Cardinality(idx), num, den) < Cardinality(ClassesOf(y, idx))
  THEN {Raise("ValueError", "should be greater or equal to the number of classes")}
  ELSE { Ok([train |-> T, test |-> idx \ T]) :
           T \in { S \in SUBSET idx :
                     \E a \in approximate_mode(y, idx,
                                Cardinality(idx) - n_test_of(Cardinality(idx), num, den)) :
                        \A c \in DOMAIN a :
                           Cardinality(S \cap ClassMembers(y, idx, c)) = a[c] } }

\* an index array, held in ascending order, and the rows it selects
IndexArray(S) ==
  [k \in 1..Cardinality(S) |-> CHOOSE i \in S : Cardinality({j \in S : j < i}) = k - 1]
Take(X, index) == [k \in 1..Len(index) |-> X[index[k]]]

\* what load_and_preprocess leaves when the split raises r
split_raised(fitted, X_combined, r) ==
  [ok |-> FALSE, exc |-> r.exc, msg |-> r.msg, self |-> fitted,
   X_combined |-> X_combined, ret |-> <<>>]

\* sets whose training labels are taken in the reverse order of the rows
create_sets_reversed(fitted, X_candles_scaled, X_combined, y, train_idx, val_idx, test_idx) ==
  [ok |-> TRUE, self |-> fitted, X_combined |-> X_combined,
   ret |-> [train_idx |-> train_idx, val_idx |-> val_idx, test_idx |-> test_idx,
            X_train |-> [candles |-> Take(X_candles_scaled, train_idx),
                         combined |-> Take(X_combined, train_idx)],
            X_val |-> [candles |-> Take(X_candles_scaled, val_idx),
                       combined |-> Take(X_combined, val_idx)],
            X_test |-> [candles |-> Take(X_candles_scaled, test_idx),
                        combined |-> Take(X_combined, test_idx)],
            y_train |-> [k \in 1..Len(train_idx) |-> y[train_idx[Len(train_idx) + 1 - k]]],
            y_val |-> Take(y, val_idx),
            y_test |-> Take(y, test_idx)]]

\* load_and_preprocess, from `# Create train/val/test sets` on
create_sets(fitted, X_candles_scaled, X_combined, y, train_idx, val_idx, test_idx) ==
  [ok |-> TRUE, self |-> fitted, X_combined |-> X_combined,
   ret |-> [train_idx |-> train_idx, val_idx |-> val_idx, test_idx |-> test_idx,
            X_train |-> [candles |-> Take(X_candles_scaled, train_idx),
                         combined |-> Take(X_combined, train_idx)],
            X_val |-> [candles |-> Take(X_candles_scaled, val_idx),
                       combined |-> Take(X_combined, val_idx)],
            X_test |-> [candles |-> Take(X_candles_scaled, test_idx),
                        combined |-> Take(X_combined, test_idx)],
            y_train |-> Take(y, train_idx),
            y_val |-> Take(y, val_idx),
            y_test |-> Take(y, test_idx)]]

\* load_and_preprocess, the second split, first being what the first gave
second_split(fitted, X_candles_scaled, X_combined, y, first) ==
  IF ~first.ok THEN {split_raised(fitted, X_combined, first)}
  ELSE { IF ~second.ok THEN split_raised(fitted, X_combined, second)
         ELSE create_sets(fitted, X_candles_scaled, X_combined, y,
                          IndexArray(first.val.train),
                          IndexArray(second.val.train),
                          IndexArray(second.val.test)) :
           second \in train_test_split(first.val.test, 1, 2, Column(y, 1)) }

\* load_and_preprocess, from `# Split dataset` on: every outcome
split_dataset(fitted, X_candles_scaled, X_combined, y) ==
  UNION { second_split(fitted, X_candles_scaled, X_combined, y, first) :
            first \in train_test_split(1..Len(y), 3, 10, Column(y, 1)) }

\* load_and_preprocess, from `# Scale features` on, the three scalers
\* being fitted on the arrays they then transform
scale_features(fitted, X_candles, X_context, X_indicators, X_patterns, y) ==
  split_dataset(
    fitted,
    [i \in 1..Len(X_candles) |-> transform(fitted.candle_scaler, X_candles[i]).val],
    concatenate_axis1(
      AsRows(transform(fitted.context_scaler, AsMatrix(X_context)).val),
      AsRows(transform(fitted.indicator_scaler, AsMatrix(X_indicators)).val),
                      X_patterns),
    y)

\* load_and_preprocess, from `# Convert to numpy arrays` on
fit_scalers(X_candles, X_context, X_indicators, X_patterns, y) ==
  scale_features([candle_scaler |-> RobustScaler_fit(reshape_flat(X_candles, 1)),
                  context_scaler |-> StandardScaler_fit(X_context),
                  indicator_scaler |-> StandardScaler_fit(X_indicators)],
                 X_candles, X_context, X_indicators, X_patterns, y)

\* DataPreprocessor.load_and_preprocess on the document of the data file:
\* the outcomes it can have, each with the preprocessor as it leaves it,
\* the combined array and the six arrays it returns
load_and_preprocess(data) ==
  fit_scalers([i \in 1..Len(data.examples) |-> extract_candles(data.examples[i])],
              [i \in 1..Len(data.examples) |-> extract_context(data.examples[i])],
              [i \in 1..Len(data.examples) |-> extract_indicators(data.examples[i])],
              [i \in 1..Len(data.examples) |-> extract_patterns(data.examples[i])],
              [i \in 1..Len(data.examples) |-> extract_labels(data.examples[i])])

\* DataPreprocessor.save_scalers: the dict pickled to scalers.pkl
save_scalers(self) ==
  [candle_scaler |-> self.candle_scaler,
   context_scaler |-> self.context_scaler,
   indicator_scaler |-> self.indicator_scaler]

\* ------------------------------------------------------ convert_scalers
\* ndarray.tolist(): the list of the entries of a 1-d array
tolist(array) == [i \in 1..Len(array) |-> array[i]]

\* convert_scalers: the entry of the candle scaler in scaler_json
robust_entry(scaler) ==
  Obj([type |-> "RobustScaler",
       center_ |-> Vec(tolist(scaler.center_)),
       scale_ |-> Vec(tolist(scaler.scale_)),
       n_features_in_ |-> Num(scaler.n_features_in_)])

\* convert_scalers: the entry of the context or indicator scaler
standard_entry(scaler) ==
  Obj([type |-> "StandardScaler",
       mean_ |-> Vec(tolist(scaler.mean_)),
       scale_ |-> Vec(tolist(scaler.scale_)),
       var_ |-> Vec(tolist(scaler.var_)),
       n_features_in_ |-> Num(scaler.n_features_in_)])

\* convert_scalers: scaler_json for the dict unpickled from scalers.pkl,
\* with an entry for each of the three scalers the dict holds
scaler_json(scalers) ==
  Obj([key \in DOMAIN scalers \cap {"candle_scaler", "context_scaler", "indicator_scaler"} |->
         IF key = "candle_scaler" THEN robust_entry(scalers[key])
         ELSE standard_entry(scalers[key])])

\* DataPreprocessor.save_processed_data: the arrays of processed_data.npz
save_processed_data(ret) ==
  [X_train_candles |-> ret.X_train.candles, X_train_combined |-> ret.X_train.combined,
   X_val_candles |-> ret.X_val.candles, X_val_combined |-> ret.X_val.combined,
   X_test_candles |-> ret.X_test.candles, X_test_combined |-> ret.X_test.combined,
   y_train |-> ret.y_train, y_val |-> ret.y_val, y_test |-> ret.y_test]

\* ------------------------------------------------ files and input lines
\* scalers.pkl as preprocessor.save_scalers wrote it
ScalersPkl ==
  [candle_scaler |->
     [type |-> "RobustScaler", center_ |-> <<10, 12, 9, 11, 1000>>,
      scale_ |-> <<2, 2, 2, 2, 500>>, n_features_in_ |-> 5],
   context_scaler |->
     [type |-> "StandardScaler", mean_ |-> <<400, 900, 100, 20, 200>>,
      scale_ |-> <<100, 200, 50, 5, 50>>,
      var_ |-> <<10000, 40000, 2500, 25, 2500>>, n_features_in_ |-> 5],
   indicator_scaler |->
     [type |-> "StandardScaler", mean_ |-> <<50, 0, 10, 10, 4>>,
      scale_ |-> <<10, 1, 2, 2, 1>>,
      var_ |-> <<100, 1, 4, 4, 1>>, n_features_in_ |-> 5]]

\* the state of a module before load_state_dict
UntrainedCheckpoint ==
  Checkpoint(<<0, 0, 0>>,
             <<Zeros(NCANDLE), Zeros(NCANDLE), Zeros(NCANDLE)>>,
             <<Zeros(18), Zeros(18), Zeros(18)>>)

\* best_model_pytorch.pth: a checkpoint whose heads weigh every input and
\* return (0.7, 4.0, 0.05) on the request of test_inference.py
TrainedCheckpoint ==
  Checkpoint(<<2223, 28800, 0 - 25644>>,
             << <<1, 0, 0, 2, 0>>, <<0, 3, 0, 0, 1>>, <<0, 0, 0 - 2, 0, 1>> >>,
             << <<1, 0 - 1, 2, 0, 1, 0, 1, 0, 0 - 1, 0, 1, 0, 0, 0, 0, 0, 1, 0>>,
                <<0, 2, 0, 1, 0, 1, 0, 0, 0, 3, 0, 0, 1, 0, 1, 0, 0, 2>>,
                <<0 - 1, 0, 0, 0, 0 - 2, 0, 0, 1, 0, 0, 0, 1, 0, 1, 0, 0 - 1, 0, 0 - 1>> >>)

CheckpointFiles == <<TrainedCheckpoint>>

\* the request test_inference.py prints
example_candles == <<Run(W, <<10, 12, 9, 11, 1000>>)>>
example_context == <<500, 1000, 150, 25, 250>>
example_indicators == <<55, 1, 11, 10, 5>>
example_patterns == <<ONE, 0, ONE, 0, 35000, 7000, 7500, 6000>>

example_input ==
  Obj([candles |-> Mat(example_candles), context |-> Vec(example_context),
       indicators |-> Vec(example_indicators), patterns |-> Vec(example_patterns)])

\* a second well-formed request: a rising price, no pattern
other_candles ==
  << Run(60, <<10, 13, 9, 12, 1500>>), Run(1, <<12, 14, 11, 13, 900>>),
     Run(39, <<13, 16, 12, 15, 2000>>) >>
other_input ==
  Obj([candles |-> Mat(other_candles), context |-> Vec(<<300, 1100, 50, 30, 150>>),
       indicators |-> Vec(<<70, 2, 12, 11, 3>>),
       patterns |-> Vec(<<0, 0, 0, 0, 0, 4000, 0, 3000>>)])

JsonText(doc) == [kind |-> "json", doc |-> doc]
EmptyText == [kind |-> "empty", doc |-> NonObj("none")]
GarbageText == [kind |-> "garbage", doc |-> NonObj("none")]

Line(pad, body) == [pad |-> pad, body |-> body]

\* the lines a caller may write
LineCatalogue ==
  << Line(TRUE, EmptyText),
     Line(FALSE, GarbageText),
     Line(FALSE, JsonText(NonObj("number"))),
     Line(FALSE, JsonText(example_input)),
     Line(TRUE, JsonText(other_input)),
     \* 99 candles
     Line(FALSE, JsonText(Obj([example_input.v EXCEPT
            !.candles = Mat(<<Run(W - 1, <<10, 12, 9, 11, 1000>>)>>)]))),
     \* context of length 4, indicators of length 6, patterns of length 7
     Line(FALSE, JsonText(Obj([example_input.v EXCEPT
            !.context = Vec(<<500, 1000, 150, 25>>)]))),
     Line(FALSE, JsonText(Obj([example_input.v EXCEPT
            !.indicators = Vec(<<55, 1, 11, 10, 5, 5>>)]))),
     Line(FALSE, JsonText(Obj([example_input.v EXCEPT
            !.patterns = Vec(<<ONE, 0, ONE, 0, 35000, 7000, 7500>>)]))),
     \* no patterns field
     Line(FALSE, JsonText(Obj([candles |-> Mat(example_candles),
            context |-> Vec(example_context),
            indicators |-> Vec(example_indicators)]))),
     \* a null among the patterns
     Line(FALSE, JsonText(Obj([example_input.v EXCEPT
            !.patterns = Vec(<<ONE, 0, ONE, 0, None, 7000, 7500, 6000>>)]))),
     \* 1e999 in the context
     Line(FALSE, JsonText(Obj([example_input.v EXCEPT
            !.context = Vec(<<500, Inf, 150, 25, 250>>)])))
  >>

\* lines that hold a JSON value of each kind: an array, a number, a
\* string, null, the request of test_inference.py, that request with 1e999
\* in its context, and a line that is no JSON
ValueCatalogue ==
  << Line(FALSE, JsonText(NonObj("array"))),
     Line(FALSE, JsonText(NonObj("number"))),
     Line(FALSE, JsonText(NonObj("string"))),
     Line(FALSE, JsonText(NonObj("null"))),
     Line(FALSE, JsonText(example_input)),
     Line(FALSE, JsonText(Obj([example_input.v EXCEPT
            !.context = Vec(<<500, Inf, 150, 25, 250>>)]))),
     Line(FALSE, GarbageText) >>

\* examples of a training data file, as add_patterns_to_existing_data.py
\* leaves them; the second one has no `patterns`
ExampleCatalogue ==
  << [candles |-> <<Run(W, [open |-> 10, high |-> 12, low |-> 9, close |-> 11,
                            volume |-> 1000])>>,
      context |-> [liquidity |-> 500, marketCap |-> 1000, holders |-> 150,
                   age |-> 25, volume24h |-> 250],
      indicators |-> [rsi |-> 55, macd |-> 1, ema_fast |-> 11, ema_slow |-> 10,
                      bbands_width |-> 5],
      patterns |-> [has_bullish_pin |-> TRUE, has_bearish_pin |-> FALSE,
                    has_bullish_engulfing |-> TRUE, has_bearish_engulfing |-> FALSE,
                    wick_rejection_ratio |-> 35000, body_to_range_ratio |-> 7000,
                    pattern_confidence |-> 7500, context_score |-> 6000],
      labels |-> [profitable |-> TRUE, max_profit |-> 40000, rug_risk |-> FALSE]],
     [candles |-> <<Run(60, [open |-> 10, high |-> 13, low |-> 9, close |-> 12,
                             volume |-> 1500]),
                    Run(40, [open |-> 13, high |-> 16, low |-> 12, close |-> 15,
                             volume |-> 2000])>>,
      context |-> [liquidity |-> 300, marketCap |-> 1100, holders |-> 50,
                   age |-> 30, volume24h |-> 150],
      indicators |-> [rsi |-> 70, macd |-> 2, ema_fast |-> 12, ema_slow |-> 11,
                      bbands_width |-> 3],
      labels |-> [profitable |-> TRUE, max_profit |-> 15000, rug_risk |-> FALSE]],
     [candles |-> <<Run(W, [open |-> 15, high |-> 15, low |-> 6, close |-> 7,
                            volume |-> 4000])>>,
      context |-> [liquidity |-> 40, marketCap |-> 90, holders |-> 20,
                   age |-> 2, volume24h |-> 700],
      indicators |-> [rsi |-> 20, macd |-> 0 - 3, ema_fast |-> 8, ema_slow |-> 12,
                      bbands_width |-> 30],
      patterns |-> [has_bullish_pin |-> FALSE, has_bearish_pin |-> FALSE,
                    has_bullish_engulfing |-> FALSE, has_bearish_engulfing |-> TRUE,
                    wick_rejection_ratio |-> 0, body_to_range_ratio |-> 8888,
                    pattern_confidence |-> 6500, context_score |-> 0],
      labels |-> [profitable |-> FALSE, max_profit |-> 200, rug_risk |-> TRUE]],
     [candles |-> <<Run(99, [open |-> 20, high |-> 21, low |-> 19, close |-> 20,
                             volume |-> 800]),
                    Run(1, [open |-> 20, high |-> 30, low |-> 19, close |-> 19,
                            volume |-> 2500])>>,
      context |-> [liquidity |-> 700, marketCap |-> 2400, holders |-> 400,
                   age |-> 90, volume24h |-> 100],
      indicators |-> [rsi |-> 45, macd |-> 0, ema_fast |-> 20, ema_slow |-> 20,
                      bbands_width |-> 8],
      patterns |-> [has_bullish_pin |-> FALSE, has_bearish_pin |-> TRUE,
                    has_bullish_engulfing |-> FALSE, has_bearish_engulfing |-> FALSE,
                    wick_rejection_ratio |-> 100000, body_to_range_ratio |-> 909,
                    pattern_confidence |-> 8000, context_score |-> 2000],
      labels |-> [profitable |-> TRUE, max_profit |-> 3000, rug_risk |-> TRUE]] >>

\* the orders in which a data file repeats the examples of the catalogue;
\* the third one mixes profitable and unprofitable examples, the fourth
\* one repeats one example, so that every feature is constant
FileShapes == << <<1, 2, 4>>, <<4, 1, 1, 2>>, <<1, 3, 2>>, <<1, 1, 1, 1>> >>

\* the smallest data file
MinExamples == 3

\* the document of a data file of n examples
DataFile(shape, n) ==
  [examples |-> [i \in 1..n |-> ExampleCatalogue[shape[((i - 1) % Len(shape)) + 1]]]]

\* the request a caller builds from an example, in the input format the
\* docstring of InferenceServer.preprocess gives
request_candles(example) ==
  [i \in 1..Len(example.candles) |->
     Run(example.candles[i].n,
         << example.candles[i].row.open, example.candles[i].row.high,
            example.candles[i].row.low, example.candles[i].row.close,
            example.candles[i].row.volume >>)]
request_context(example) ==
  << example.context.liquidity, example.context.marketCap,
     example.context.holders, example.context.age, example.context.volume24h >>
request_indicators(example) ==
  << example.indicators.rsi, example.indicators.macd,
     example.indicators.ema_fast, example.indicators.ema_slow,
     example.indicators.bbands_width >>
request_patterns(example) ==
  << IF example.patterns.has_bullish_pin THEN ONE ELSE 0,
     IF example.patterns.has_bearish_pin THEN ONE ELSE 0,
     IF example.patterns.has_bullish_engulfing THEN ONE ELSE 0,
     IF example.patterns.has_bearish_engulfing THEN ONE ELSE 0,
     example.patterns.wick_rejection_ratio,
     example.patterns.body_to_range_ratio,
     example.patterns.pattern_confidence,
     example.patterns.context_score >>
request_of(example) ==
  IF "patterns" \in DOMAIN example
  THEN Obj([candles |-> Mat(request_candles(example)),
            context |-> Vec(request_context(example)),
            indicators |-> Vec(request_indicators(example)),
            patterns |-> Vec(request_patterns(example))])
  ELSE Obj([candles |-> Mat(request_candles(example)),
            context |-> Vec(request_context(example)),
            indicators |-> Vec(request_indicators(example))])

\* the draws of the dropout generator (drawn in training mode only)
DropDraws == {0, 1}

\* --------------------------------------- add_patterns_to_existing_data
\* Prices are integers in the unit of the price; ratios, confidences and
\* scores are in units of 1/ONE, liquidity in 1e3.
Max2(a, b) == IF a >= b THEN a ELSE b
Min2(a, b) == IF a <= b THEN a ELSE b
Abs(a) == IF a < 0 THEN 0 - a ELSE a

\* the list of candles a matrix of runs stands for
RECURSIVE Expand(_, _)
Expand(runs, i) ==
  IF i > Len(runs) THEN <<>>
  ELSE [k \in 1..runs[i].n |-> runs[i].row] \o Expand(runs, i + 1)

\* detect_candlestick_patterns: the result for fewer than 2 candles, with
\* a context score that is not the default
default_patterns_scored ==
  [has_bullish_pin |-> FALSE, has_bearish_pin |-> FALSE,
   has_bullish_engulfing |-> FALSE, has_bearish_engulfing |-> FALSE,
   wick_rejection_ratio |-> 0, body_to_range_ratio |-> 0,
   pattern_confidence |-> 0, context_score |-> 1000]

\* detect_candlestick_patterns: the result for fewer than 2 candles
default_patterns ==
  [has_bullish_pin |-> FALSE, has_bearish_pin |-> FALSE,
   has_bullish_engulfing |-> FALSE, has_bearish_engulfing |-> FALSE,
   wick_rejection_ratio |-> 0, body_to_range_ratio |-> 0,
   pattern_confidence |-> 0, context_score |-> 0]

\* the metrics of a candle
body(c) == Abs(c.close - c.open)
upper_wick(c) == c.high - Max2(c.close, c.open)
lower_wick(c) == Min2(c.close, c.open) - c.low
total_range(c) == c.high - c.low
is_bullish(c) == c.close > c.open
is_bearish(c) == c.close < c.open

\* body / total_range if total_range > 0 else 0
body_to_range(c) ==
  IF total_range(c) > 0 THEN (body(c) * ONE) \div total_range(c) ELSE 0

\* the ratio without the cap at 10
wick_rejection_ratio_uncapped(c) ==
  IF body(c) > 0 THEN (Max2(upper_wick(c), lower_wick(c)) * ONE) \div body(c)
  ELSE 0

\* min(max(upper_wick, lower_wick) / body if body > 0 else 0, 10)
wick_rejection_ratio(c) ==
  Min2(IF body(c) > 0 THEN (Max2(upper_wick(c), lower_wick(c)) * ONE) \div body(c)
       ELSE 0,
       10 * ONE)

\* MIN_WICK_TO_BODY_RATIO
MIN_WICK_TO_BODY_RATIO == 2

\* a bullish pin rule that does not ask for a bullish candle
has_bullish_pin_anycolour(c) == lower_wick(c) > body(c) * MIN_WICK_TO_BODY_RATIO

\* the four rules
has_bullish_pin(c) == lower_wick(c) > body(c) * MIN_WICK_TO_BODY_RATIO /\ is_bullish(c)
has_bearish_pin(c) == upper_wick(c) > body(c) * MIN_WICK_TO_BODY_RATIO /\ is_bearish(c)
\* body > prev_body * 0.6
engulfs_previous(c, prev) == body(c) * 10 > body(prev) * 6
\* a bullish engulfing rule that does not ask for body / range > 0.6
has_bullish_engulfing_anyrange(c, prev) == is_bullish(c) /\ engulfs_previous(c, prev)

has_bullish_engulfing(c, prev) ==
  is_bullish(c) /\ engulfs_previous(c, prev) /\ body_to_range(c) > 6000
has_bearish_engulfing(c, prev) ==
  is_bearish(c) /\ engulfs_previous(c, prev) /\ body_to_range(c) > 6000

\* min(60 + wick_strength * 0.3, 80) / 100, wick_strength being
\* (wick / total_range) * 100 if total_range > 0 else 0
pin_confidence(wick, range) ==
  Min2(6000 + (IF range > 0 THEN (wick * 3000) \div range ELSE 0), 8000)

\* a rule whose match overwrites the confidence
after_rule_overwrite(confidence, matched, candidate) ==
  IF matched THEN candidate ELSE confidence

\* pattern_confidence after one rule: max(pattern_confidence, candidate)
\* if the rule matched
after_rule(confidence, matched, candidate) ==
  IF matched THEN Max2(confidence, candidate) ELSE confidence

\* pattern_confidence after the four rules, in their order
pattern_confidence(c, prev) ==
  after_rule(
    after_rule(
      after_rule(
        after_rule(0, has_bullish_pin(c),
                   pin_confidence(lower_wick(c), total_range(c))),
        has_bearish_pin(c), pin_confidence(upper_wick(c), total_range(c))),
      has_bullish_engulfing(c, prev), 6500),
    has_bearish_engulfing(c, prev), 6500)

\* calculate_context_score: the trend term for ((last - first) / first) * 100
trend_score(price_change) ==
  IF price_change > 10 * ONE THEN 3000
  ELSE IF price_change > 0 THEN 1500
  ELSE IF price_change < 0 - 10 * ONE THEN 1000
  ELSE 0

\* calculate_context_score: the term for the position in the recent range
position_score(price_position) ==
  IF price_position < 2000 THEN 2500
  ELSE IF price_position > 9000 THEN 2000
  ELSE 0

\* max(highs), min(lows) of the recent candles
recent_high(recent) == CHOOSE h \in {recent[i].high : i \in 1..Len(recent)} :
                         \A i \in 1..Len(recent) : recent[i].high <= h
recent_low(recent) == CHOOSE l \in {recent[i].low : i \in 1..Len(recent)} :
                        \A i \in 1..Len(recent) : recent[i].low >= l

\* calculate_context_score: the support/resistance term of 20 candles
support_resistance(recent, current_price) ==
  IF recent_high(recent) # recent_low(recent)
  THEN position_score(((current_price - recent_low(recent)) * ONE)
                        \div (recent_high(recent) - recent_low(recent)))
  ELSE 0

\* a liquidity term with the thresholds included
liquidity_score_inclusive(token_context) ==
  IF "liquidity" \in DOMAIN token_context
  THEN IF token_context.liquidity >= 500 THEN 2000
       ELSE IF token_context.liquidity >= 100 THEN 1000 ELSE 0
  ELSE 0

\* calculate_context_score: the liquidity term, token_context.get('liquidity', 0)
liquidity_score(token_context) ==
  IF "liquidity" \in DOMAIN token_context
  THEN IF token_context.liquidity > 500 THEN 2000
       ELSE IF token_context.liquidity > 100 THEN 1000 ELSE 0
  ELSE 0

\* candles[-20:]
last20(candles) == SubSeq(candles, Len(candles) - 19, Len(candles))

\* calculate_context_score for at least 20 candles, recent being the last 20
context_score_recent(recent, token_context) ==
  IF recent[1].close = 0
  THEN Raise("ZeroDivisionError", "division by zero")
  ELSE Ok(Min2(trend_score(((recent[20].close - recent[1].close) * 100 * ONE)
                             \div recent[1].close)
               + support_resistance(recent, recent[20].close)
               + liquidity_score(token_context),
               ONE))

\* calculate_context_score(candles, token_context)
calculate_context_score(candles, token_context) ==
  IF Len(candles) >= 20 THEN context_score_recent(last20(candles), token_context)
  ELSE Ok(Min2(liquidity_score(token_context), ONE))

\* detect_candlestick_patterns for at least 2 candles: the returned dict,
\* score being what calculate_context_score gave
detected(last_candle, prev_candle, score) ==
  IF ~score.ok THEN score
  ELSE Ok([has_bullish_pin |-> has_bullish_pin(last_candle),
           has_bearish_pin |-> has_bearish_pin(last_candle),
           has_bullish_engulfing |-> has_bullish_engulfing(last_candle, prev_candle),
           has_bearish_engulfing |-> has_bearish_engulfing(last_candle, prev_candle),
           wick_rejection_ratio |-> wick_rejection_ratio(last_candle),
           body_to_range_ratio |-> body_to_range(last_candle),
           pattern_confidence |-> pattern_confidence(last_candle, prev_candle),
           context_score |-> score.val])

\* detect_candlestick_patterns(candles, context)
detect_candlestick_patterns(candles, context) ==
  IF Len(candles) < 2 THEN Ok(default_patterns)
  ELSE detected(candles[Len(candles)], candles[Len(candles) - 1],
                calculate_context_score(candles, context))

\* example['patterns'] = patterns
with_patterns(example, patterns) ==
  [f \in DOMAIN example \cup {"patterns"} |->
     IF f = "patterns" THEN patterns ELSE example[f]]

\* the candles and contexts of the examples of an input file
Candle(o, h, l, c) == [open |-> o, high |-> h, low |-> l, close |-> c, volume |-> 1000]
\* candles whose longer wick is 10 and 11 times the body
LongWickCandles ==
  { Candle(2 * MaxPrice, 2 * MaxPrice + 1, 0, 2 * MaxPrice + 1),
    Candle(2 * MaxPrice + 1, 2 * MaxPrice + 2, 0, 2 * MaxPrice + 2),
    Candle(1, 2 * MaxPrice + 2, 0, 0) }
LastCandles ==
  {Candle(o, h, l, c) : o \in 0..MaxPrice, h \in 0..MaxPrice, l \in 0..MaxPrice,
                        c \in 0..MaxPrice}
  \cup LongWickCandles
PrevCandles == {Candle(1, 1, 1, 1), Candle(0, 4, 0, 3)}
EarlierCandles == {Candle(0, 0, 0, 0), Candle(2, 2, 2, 2)}
HistoryLengths == {0, 1, 2, 20, 21}
TokenContexts ==
  { [holders |-> 10], [liquidity |-> 100, holders |-> 10],
    [liquidity |-> 101, holders |-> 10], [liquidity |-> 501, holders |-> 10] }

\* the candle of a history that is older than its last 20
StaleCandle == Candle(1, 3 * MaxPrice, 0, 1)

\* a history of n candles that ends with prev, last
History(n, earlier, prev, last) ==
  IF n = 0 THEN <<>>
  ELSE IF n = 1 THEN <<Run(1, last)>>
  ELSE IF n = 2 THEN <<Run(1, prev), Run(1, last)>>
  ELSE IF n <= 20 THEN <<Run(n - 2, earlier), Run(1, prev), Run(1, last)>>
  ELSE <<Run(n - 20, StaleCandle), Run(18, earlier), Run(1, prev), Run(1, last)>>

\* the examples that may follow the first one in an input file
FileTails ==
  { <<>>,
    << [candles |-> History(20, Candle(2, 2, 2, 2), Candle(2, 3, 2, 3), Candle(3, 4, 0, 4)),
        context |-> [liquidity |-> 501, holders |-> 10]] >> }

\* ------------------------------------------------------------------ state
VARIABLES
  pc,        \* "new", "iter" (at `for line in sys.stdin`), "body", "done",
             \* "crashed" (an exception left run)
  self,      \* the InferenceServer object: model and scalers
  loads,     \* how often the model and the scalers were read from disk
  stdin,     \* lines written by the caller and not yet read
  closed,    \* the caller has closed its end of the pipe
  fed,       \* number of lines the caller has written
  line,      \* the loop variable
  history,   \* every line the loop has read, in order
  effects,   \* per line read: what handling it did
  outbuf,    \* sys.stdout's buffer
  stdout,    \* what has been flushed to the caller, in order
  disk,      \* the files: trainingData_full.json, scalers.pkl and
             \* processed_data.npz, each <<>> (absent) or <<content>>
  prep_pc,   \* position in preprocessor.main: "idle" (not run), "start",
             \* "preprocessed", "scalers_saved", "done", "failed"
  dp,        \* the DataPreprocessor object: its three scalers
  prep,      \* locals of the preprocessing run: the combined array and
             \* the arrays load_and_preprocess returned
  pat_pc,    \* position in process_training_data: "idle" (not run),
             \* "start", "loop", "done", "failed" (an exception left it)
  input_file,    \* the document of the input file of the pattern calculator
  pat_examples,  \* its list `examples`
  processed,     \* its counter `processed`
  output_file,   \* trainingData_with_patterns.json: <<>> or <<document>>
  conv,      \* a run of convert_scalers.py: its position, what
             \* convert_scalers and verify_scalers returned, the scaled
             \* values verify_scalers printed, the exit code of main
  train      \* a call of train_model: its arguments, its locals, the
             \* optimizer, the scheduler, the model's weights, the two
             \* files best_model_pytorch.pth and training_checkpoint.pth,
             \* and how often the call has saved the first

vars ==
  <<pc, self, loads, stdin, closed, fed, line, history, effects, outbuf, stdout,
    disk, prep_pc, dp, prep, pat_pc, input_file, pat_examples, processed, output_file,
    conv, train>>

\* the variables of the preprocessing run
prepvars == <<disk, prep_pc, dp, prep>>

\* the variables of the pattern calculator
patvars == <<pat_pc, input_file, pat_examples, processed, output_file>>

\* no pattern calculation is run
PatternIdle ==
  /\ pat_pc = "idle"
  /\ input_file = [examples |-> <<>>]
  /\ pat_examples = <<>>
  /\ processed = 0
  /\ output_file = <<>>

\* convert_scalers.py is not run
ConvertIdle ==
  conv = [pc |-> "idle", convert_ret |-> <<>>, verify_ret |-> <<>>,
          printed |-> <<>>, exit |-> <<>>, applied |-> <<>>]

\* train_model is not called
TrainIdle ==
  train = [pc |-> "idle", epochs |-> 0, scenario |-> 0, start_epoch |-> 0, epoch |-> 0,
           best_val_auc |-> 0, patience_counter |-> 0, history |-> <<>>,
           lr |-> 0, last_epoch |-> 0, model |-> <<>>, kills |-> 0,
           best_model_path |-> <<>>, saves |-> 0, checkpoint_path |-> <<>>]

\* SnipeBTModel(): freshly constructed modules are in training mode
NewModule == [training |-> TRUE, state_dict |-> UntrainedCheckpoint]

\* the server process before main() runs
ServerInit ==
  /\ pc = "new"
  /\ self = [model |-> NewModule, scalers |-> DataPreprocessor_init]
  /\ loads = [model |-> 0, scalers |-> 0]
  /\ stdin = <<>>
  /\ closed = FALSE
  /\ fed = 0
  /\ line = Line(FALSE, EmptyText)
  /\ history = <<>>
  /\ effects = <<>>
  /\ outbuf = <<>>
  /\ stdout = <<>>

\* a server started on a scalers.pkl already written
Init ==
  /\ ServerInit
  /\ disk = [trainingData |-> <<>>, scalers_pkl |-> <<ScalersPkl>>,
             processed_data_npz |-> <<>>, scalers_json |-> <<>>]
  /\ prep_pc = "idle"
  /\ dp = DataPreprocessor_init
  /\ prep = [X_combined |-> <<>>, ret |-> <<>>]
  /\ PatternIdle
  /\ ConvertIdle
  /\ TrainIdle

\* a data file, no scalers yet: the preprocessing runs, then the server
PipelineInit ==
  /\ ServerInit
  /\ \E s \in 1..Len(FileShapes) : \E n \in MinExamples..MaxExamples :
       disk = [trainingData |-> <<DataFile(FileShapes[s], n)>>,
               scalers_pkl |-> <<>>, processed_data_npz |-> <<>>,
               scalers_json |-> <<>>]
  /\ prep_pc = "start"
  /\ dp = DataPreprocessor_init
  /\ prep = [X_combined |-> <<>>, ret |-> <<>>]
  /\ PatternIdle
  /\ ConvertIdle
  /\ TrainIdle

\* a constructor without self.model.eval()
InferenceServer_init_noeval(checkpoint, pkl) ==
  [model |-> [training |-> TRUE, state_dict |-> checkpoint],
   scalers |-> pkl]

\* InferenceServer.__init__: load_state_dict, eval(), pickle.load
InferenceServer_init(checkpoint, pkl) ==
  [model |-> [training |-> FALSE, state_dict |-> checkpoint],
   scalers |-> pkl]

\* main(): InferenceServer(...); without scalers.pkl the constructor
\* raises after it has loaded the model
Construct ==
  /\ pc = "new"
  /\ IF disk.scalers_pkl = <<>>
     THEN /\ pc' = "crashed"
          /\ loads' = [loads EXCEPT !.model = loads.model + 1]
          /\ UNCHANGED self
     ELSE /\ \E c \in 1..Len(CheckpointFiles) :
               self' = InferenceServer_init(CheckpointFiles[c], disk.scalers_pkl[1])
          /\ loads' = [model |-> loads.model + 1, scalers |-> loads.scalers + 1]
          /\ pc' = "iter"
  /\ UNCHANGED <<stdin, closed, fed, line, history, effects, outbuf, stdout>>
  /\ UNCHANGED <<prepvars, patvars, conv, train>>

\* the caller writes a line / closes the pipe
Feed ==
  /\ ~closed
  /\ fed < MaxLines
  /\ Len(stdin) < PipeCap
  /\ \E i \in 1..Len(LineCatalogue) : stdin' = Append(stdin, LineCatalogue[i])
  /\ fed' = fed + 1
  /\ UNCHANGED <<pc, self, loads, closed, line, history, effects, outbuf, stdout>>
  /\ UNCHANGED <<prepvars, patvars, conv, train>>

\* the caller writes the request of an example of the data file
FeedExample ==
  /\ ~closed
  /\ fed < MaxRequests
  /\ Len(stdin) < PipeCap
  /\ disk.trainingData # <<>>
  /\ \E i \in 1..Len(disk.trainingData[1].examples) :
       stdin' = Append(stdin,
                  Line(FALSE, JsonText(request_of(disk.trainingData[1].examples[i]))))
  /\ fed' = fed + 1
  /\ UNCHANGED <<pc, self, loads, closed, line, history, effects, outbuf, stdout>>
  /\ UNCHANGED <<prepvars, patvars, conv, train>>

Close ==
  /\ ~closed
  /\ closed' = TRUE
  /\ UNCHANGED <<pc, self, loads, stdin, fed, line, history, effects, outbuf, stdout>>
  /\ UNCHANGED <<prepvars, patvars, conv, train>>

\* `for line in sys.stdin`: the next line, or the end of the loop
ReadLine ==
  /\ pc = "iter"
  /\ stdin # <<>>
  /\ line' = Head(stdin)
  /\ stdin' = Tail(stdin)
  /\ history' = Append(history, Head(stdin))
  /\ pc' = "body"
  /\ UNCHANGED <<self, loads, closed, fed, effects, outbuf, stdout>>
  /\ UNCHANGED <<prepvars, patvars, conv, train>>

EndOfInput ==
  /\ pc = "iter"
  /\ stdin = <<>>
  /\ closed
  /\ pc' = "done"
  /\ UNCHANGED <<self, loads, stdin, closed, fed, line, history, effects, outbuf, stdout>>
  /\ UNCHANGED <<prepvars, patvars, conv, train>>

\* a print that leaves the line in the buffer whatever flush says
stdout_print_noflush(buf, out, text, flush) ==
  [outbuf |-> Append(buf, [text |-> text, end |-> "\n"]), stdout |-> out]

\* print(text, flush=True) on sys.stdout
stdout_print(buf, out, text, flush) ==
  LET b == Append(buf, [text |-> text, end |-> "\n"])
  IN  IF flush THEN [outbuf |-> <<>>, stdout |-> out \o b]
      ELSE [outbuf |-> b, stdout |-> out]

\* the record of a handled line: the position of its response in the
\* output (0: none), the calls made, the tuple the model returned, the
\* combined vector preprocess built (<<>>: none)
NoEffect ==
  [out |-> 0, transforms |-> 0, invocations |-> 0, returned |-> <<>>,
   combined |-> <<>>]

\* the position the next printed line takes
NextOut(buf, out) == Len(out) + Len(buf) + 1

\* a handler that lets the exception leave the loop
except_JSONDecodeError_reraise(srv, buf, out, e) ==
  [self |-> srv, io |-> [outbuf |-> buf, stdout |-> out], effect |-> NoEffect,
   raised |-> TRUE]

\* a handler that swallows the exception without a response
except_JSONDecodeError_silent(srv, buf, out, e) ==
  [self |-> srv, io |-> [outbuf |-> buf, stdout |-> out], effect |-> NoEffect,
   raised |-> FALSE]

\* run: `except json.JSONDecodeError as e`
except_JSONDecodeError(srv, buf, out, e) ==
  [self |-> srv,
   io |-> stdout_print(buf, out,
            json_dumps(ErrorResult(<<"Invalid JSON: ", e.msg>>)), TRUE),
   effect |-> [NoEffect EXCEPT !.out = NextOut(buf, out)],
   raised |-> FALSE]

\* run: `except Exception as e`
except_Exception(srv, buf, out, e) ==
  [self |-> srv,
   io |-> stdout_print(buf, out,
            json_dumps(ErrorResult(<<"Inference failed: ", e.msg>>)), TRUE),
   effect |-> [NoEffect EXCEPT !.out = NextOut(buf, out)],
   raised |-> FALSE]

\* a run that reports an error result of predict as a failed inference
respond_wrapped(p, buf, out) ==
  [self |-> p.self,
   io |-> stdout_print(buf, out,
            json_dumps(IF "error" \in DOMAIN p.result
                       THEN ErrorResult(<<"Inference failed: ">> \o p.result.error)
                       ELSE p.result), TRUE),
   effect |-> [out |-> NextOut(buf, out), transforms |-> p.transforms,
               invocations |-> p.invocations, returned |-> p.returned,
               combined |-> p.combined],
   raised |-> FALSE]

\* run: print(json.dumps(result), flush=True) for the result of predict
respond(p, buf, out) ==
  [self |-> p.self,
   io |-> stdout_print(buf, out, json_dumps(p.result), TRUE),
   effect |-> [out |-> NextOut(buf, out), transforms |-> p.transforms,
               invocations |-> p.invocations, returned |-> p.returned,
               combined |-> p.combined],
   raised |-> FALSE]

\* run: the try statement, request being what json.loads gave
run_try(srv, request, buf, out, drop) ==
  IF request.ok THEN respond(predict(srv, request.val, drop), buf, out)
  ELSE IF request.exc = "JSONDecodeError"
  THEN except_JSONDecodeError(srv, buf, out, request)
  ELSE except_Exception(srv, buf, out, request)

\* run: the body after line = line.strip()
run_stripped(srv, s, buf, out, drop) ==
  IF s.kind = "empty"
  THEN [self |-> srv, io |-> [outbuf |-> buf, stdout |-> out], effect |-> NoEffect,
        raised |-> FALSE]
  ELSE run_try(srv, json_loads(s), buf, out, drop)

\* the body of the loop of InferenceServer.run for the line just read:
\* what it leaves in self, the output stream and the record of the line
run_body(srv, ln, buf, out, drop) == run_stripped(srv, strip(ln), buf, out, drop)

\* the state after the body
Becomes(r) ==
  /\ self' = r.self
  /\ outbuf' = r.io.outbuf
  /\ stdout' = r.io.stdout
  /\ effects' = Append(effects, r.effect)
  /\ pc' = IF r.raised THEN "crashed" ELSE "iter"

LoopBody ==
  /\ pc = "body"
  /\ \E drop \in (IF self.model.training THEN DropDraws ELSE {0}) :
       Becomes(run_body(self, line, outbuf, stdout, drop))
  /\ UNCHANGED <<loads, stdin, closed, fed, line, history>>
  /\ UNCHANGED <<prepvars, patvars, conv, train>>

Next == Construct \/ Feed \/ Close \/ ReadLine \/ EndOfInput \/ LoopBody

Spec == Init /\ [][Next]_vars

\* ---------------------------------------------- the preprocessing run
\* the variables of the server and its caller
servervars ==
  <<pc, self, loads, stdin, closed, fed, line, history, effects, outbuf, stdout>>

\* the state after load_and_preprocess has ended as r
Preprocessed(r) ==
  /\ dp' = r.self
  /\ prep' = [X_combined |-> r.X_combined, ret |-> r.ret]
  /\ prep_pc' = IF r.ok THEN "preprocessed" ELSE "failed"

\* main: preprocessor.load_and_preprocess()
LoadAndPreprocess ==
  /\ prep_pc = "start"
  /\ \E r \in load_and_preprocess(disk.trainingData[1]) : Preprocessed(r)
  /\ UNCHANGED disk
  /\ UNCHANGED <<servervars, patvars, conv, train>>

\* main: preprocessor.save_scalers()
SaveScalers ==
  /\ prep_pc = "preprocessed"
  /\ disk' = [disk EXCEPT !.scalers_pkl = <<save_scalers(dp)>>]
  /\ prep_pc' = "scalers_saved"
  /\ UNCHANGED <<dp, prep>>
  /\ UNCHANGED <<servervars, patvars, conv, train>>

\* main: preprocessor.save_processed_data(...)
SaveProcessedData ==
  /\ prep_pc = "scalers_saved"
  /\ disk' = [disk EXCEPT !.processed_data_npz = <<save_processed_data(prep.ret)>>]
  /\ prep_pc' = "done"
  /\ UNCHANGED <<dp, prep>>
  /\ UNCHANGED <<servervars, patvars, conv, train>>

\* -------------------------------------------------- convert_scalers.py
\* the three scalers convert_scalers exports and asserts on
ScalerKeys == {"candle_scaler", "context_scaler", "indicator_scaler"}

\* a conversion whose validation asserts nothing
convert_scalers_unvalidated(pkl_file) ==
  IF pkl_file = <<>> THEN [ret |-> FALSE, written |-> <<>>]
  ELSE [ret |-> TRUE, written |-> <<json_dumps(scaler_json(pkl_file[1]))>>]

\* convert_scalers(): without scalers.pkl it returns False; else it writes
\* json.dump(scaler_json) to scalers.json, reads the file back and asserts
\* the three keys; a failed assert is caught and False is returned, the
\* file staying as written
convert_scalers(pkl_file) ==
  IF pkl_file = <<>> THEN [ret |-> FALSE, written |-> <<>>]
  ELSE LET written == json_dumps(scaler_json(pkl_file[1]))
           loaded == json_loads(written).val
       IN  [ret |-> ScalerKeys \subseteq DOMAIN loaded.v, written |-> <<written>>]

\* numpy's float division: a zero divisor gives inf or nan, no exception
np_divide(a, b) ==
  IF b = 0 THEN (IF a = 0 \/ IsNaN(a) THEN NaN ELSE Inf) ELSE FDiv(a, b)

\* scaling with a scaler shifted by half its scale
json_scaled_shifted(entry, loc, sample) ==
  [j \in 1..Len(sample) |->
     np_divide(FSub(sample[j], entry.v[loc].a[j] + entry.v.scale_.a[j] \div 2),
               entry.v.scale_.a[j])]

\* [(val - scaler[loc][j]) / scaler['scale_'][j] for j, val in
\* enumerate(sample)] for an entry of the JSON document
json_scaled(entry, loc, sample) ==
  [j \in 1..Len(sample) |->
     np_divide(FSub(sample[j], entry.v[loc].a[j]), entry.v.scale_.a[j])]

\* verify_scalers: the scaled values of the first min(3, len) samples
scaled_samples(entry, loc, samples) ==
  [i \in 1..Min2(3, Len(samples)) |-> json_scaled(entry, loc, samples[i])]

\* data[key][:5]
first5(array) == [i \in 1..Min2(5, Len(array)) |-> array[i]]

\* test_candles[i][0] for each sample: the first timestep
first_timesteps(test_candles) ==
  [i \in 1..Len(test_candles) |-> test_candles[i][1].row]

\* what verify_scalers has printed when one scaler of the document after
\* the other is used: a missing key raises KeyError where it is read
verified(json_scalers, test_candles, test_context, test_indicators) ==
  IF "candle_scaler" \notin DOMAIN json_scalers
  THEN [ret |-> FALSE, printed |-> <<>>]
  ELSE LET candle == scaled_samples(json_scalers.candle_scaler, "center_",
                                    first_timesteps(test_candles))
       IN  IF "context_scaler" \notin DOMAIN json_scalers
           THEN [ret |-> FALSE, printed |-> <<candle>>]
           ELSE LET context == scaled_samples(json_scalers.context_scaler, "mean_",
                                              test_context)
                IN  IF "indicator_scaler" \notin DOMAIN json_scalers
                    THEN [ret |-> FALSE, printed |-> <<candle, context>>]
                    ELSE [ret |-> TRUE,
                          printed |-> <<candle, context,
                                        scaled_samples(json_scalers.indicator_scaler,
                                                       "mean_", test_indicators)>>]

\* verify_scalers(): it reads scalers.json and processed_data.npz, scales
\* the first samples with the document's parameters and prints them; any
\* exception (a missing file, a missing array, a missing scaler) makes it
\* return False, and nothing else does
verify_scalers(json_file, npz_file) ==
  IF json_file = <<>> \/ npz_file = <<>> THEN [ret |-> FALSE, printed |-> <<>>]
  ELSE IF ~({"X_test_candles", "X_test_context", "X_test_indicators"}
              \subseteq DOMAIN npz_file[1])
  THEN [ret |-> FALSE, printed |-> <<>>]
  ELSE verified(json_loads(json_file[1]).val.v,
                first5(npz_file[1].X_test_candles),
                first5(npz_file[1].X_test_context),
                first5(npz_file[1].X_test_indicators))

\* a call of convert_scalers() whose return value is not used
ConvertScalers ==
  /\ IF disk.scalers_pkl = <<>>
     THEN UNCHANGED disk
     ELSE disk' = [disk EXCEPT
                     !.scalers_json = convert_scalers(disk.scalers_pkl).written]
  /\ UNCHANGED <<prep_pc, dp, prep>>
  /\ UNCHANGED <<servervars, patvars, conv, train>>

PipelineNext ==
  \/ LoadAndPreprocess \/ SaveScalers \/ SaveProcessedData \/ ConvertScalers
  \/ Construct \/ FeedExample \/ Close \/ ReadLine \/ EndOfInput \/ LoopBody

PipelineSpec == PipelineInit /\ [][PipelineNext]_vars

\* ------------------------------------------------ the conversion run
\* a second set of fitted scalers: other parameters, one scale of 1
OtherPkl ==
  [candle_scaler |->
     [type |-> "RobustScaler", center_ |-> <<8, 10, 7, 9, 800>>,
      scale_ |-> <<4, 4, 4, 4, 1>>, n_features_in_ |-> 5],
   context_scaler |->
     [type |-> "StandardScaler", mean_ |-> <<300, 800, 120, 10, 100>>,
      scale_ |-> <<50, 100, 25, 10, 25>>,
      var_ |-> <<2500, 10000, 625, 100, 625>>, n_features_in_ |-> 5],
   indicator_scaler |->
     [type |-> "StandardScaler", mean_ |-> <<40, 1, 8, 12, 2>>,
      scale_ |-> <<5, 2, 1, 4, 2>>,
      var_ |-> <<25, 4, 1, 16, 4>>, n_features_in_ |-> 5]]

\* a pickled dict without one of its scalers
Without(pkl, key) == [k \in DOMAIN pkl \ {key} |-> pkl[k]]

\* scalers.pkl: absent, complete, or lacking one scaler
PklFiles ==
  {<<>>, <<ScalersPkl>>, <<OtherPkl>>}
    \cup {<<Without(ScalersPkl, key)>> : key \in ScalerKeys}
    \cup {<<Without(OtherPkl, key)>> : key \in ScalerKeys}

\* scalers.json before the run: absent, or left by an earlier conversion
JsonFiles ==
  {<<>>, <<json_dumps(scaler_json(OtherPkl))>>,
   <<json_dumps(scaler_json(Without(ScalersPkl, "indicator_scaler")))>>}

\* the test samples of a processed_data.npz
TestCandles == << <<Run(W, <<0, ONE, 0 - HALF, HALF, 2 * ONE>>)>>,
                  <<Run(1, <<10, 12, 9, 11, 1000>>), Run(W - 1, <<0, 0, 0, 0, 0>>)>>,
                  <<Run(W, <<NaN, 0, 0, 0, 0>>)>>,
                  <<Run(W, <<1, 1, 1, 1, 1>>)>> >>
TestContext == << <<ONE, 0, 0 - ONE, HALF, 0>>, <<500, 1000, 150, 25, 250>>,
                  <<0, 0, NaN, 0, 0>>, <<1, 1, 1, 1, 1>> >>
TestIndicators == << <<0, ONE, 0, 0 - ONE, 0>>, <<55, 1, 11, 10, 5>>,
                     <<0, 0, 0, 0, NaN>>, <<1, 1, 1, 1, 1>> >>

\* processed_data.npz as save_processed_data writes it, k test samples
PipelineNpz(k) ==
  save_processed_data(
    [X_train |-> [candles |-> <<>>, combined |-> <<>>],
     X_val |-> [candles |-> <<>>, combined |-> <<>>],
     X_test |-> [candles |-> Take(TestCandles, IndexArray(1..k)), combined |-> <<>>],
     y_train |-> <<>>, y_val |-> <<>>, y_test |-> <<>>])

\* processed_data.npz in the layout with separate context and indicator
\* arrays, k test samples
SplitNpz(k) ==
  [X_test_candles |-> Take(TestCandles, IndexArray(1..k)),
   X_test_context |-> Take(TestContext, IndexArray(1..k)),
   X_test_indicators |-> Take(TestIndicators, IndexArray(1..k))]

NpzFiles == {<<>>, <<PipelineNpz(2)>>} \cup {<<SplitNpz(k)>> : k \in {0, 1, 2, 4}}

\* the inputs a consumer of scalers.json scales, all of the width of the
\* scalers: finite rows, a row with nan, a row with an infinity
ProbeInputs ==
  {<<10, 12, 9, 11, 1000>>, <<500, 1000, 150, 25, 250>>, <<0, 0, 0, 0, 0>>,
   <<NaN, 12, 9, 11, 1000>>, <<10, 12, Inf, 11, 1000>>}

\* the program is started as main(), or verify_scalers() is called alone
ConvertInit ==
  /\ ServerInit
  /\ \E pkl \in PklFiles : \E json \in JsonFiles : \E npz \in NpzFiles :
       disk = [trainingData |-> <<>>, scalers_pkl |-> pkl,
               processed_data_npz |-> npz, scalers_json |-> json]
  /\ prep_pc = "idle"
  /\ dp = DataPreprocessor_init
  /\ prep = [X_combined |-> <<>>, ret |-> <<>>]
  /\ PatternIdle
  /\ TrainIdle
  /\ \E entry \in {"main", "call_verify"} :
       conv = [pc |-> entry, convert_ret |-> <<>>, verify_ret |-> <<>>,
               printed |-> <<>>, exit |-> <<>>, applied |-> <<>>]

\* main: success = convert_scalers(); if not success: return 1
Convert ==
  /\ conv.pc = "main"
  /\ LET r == convert_scalers(disk.scalers_pkl)
     IN  /\ disk' = IF r.written = <<>> THEN disk
                    ELSE [disk EXCEPT !.scalers_json = r.written]
         /\ conv' = [conv EXCEPT !.convert_ret = <<r.ret>>,
                                 !.pc = IF r.ret THEN "verify" ELSE "exit",
                                 !.exit = IF r.ret THEN <<>> ELSE <<1>>]
  /\ UNCHANGED <<prep_pc, dp, prep>>
  /\ UNCHANGED <<servervars, patvars, train>>

\* main: success = verify_scalers(); return 1 if not success, else 0; or
\* the call of verify_scalers() alone
Verify ==
  /\ conv.pc \in {"verify", "call_verify"}
  /\ LET r == verify_scalers(disk.scalers_json, disk.processed_data_npz)
     IN  conv' = [conv EXCEPT !.verify_ret = <<r.ret>>,
                              !.printed = r.printed,
                              !.pc = "exit",
                              !.exit = IF conv.pc = "call_verify" THEN <<>>
                                       ELSE IF r.ret THEN <<0>> ELSE <<1>>]
  /\ UNCHANGED <<servervars, prepvars, patvars, train>>

\* the usage convert_scalers prints: a consumer reads scalers.json and
\* scales an input with the parameters of one of its scalers
ScaleWithJson ==
  /\ conv.convert_ret = <<TRUE>>
  /\ conv.applied = <<>>
  /\ \E key \in ScalerKeys : \E x \in ProbeInputs :
       LET entry == json_loads(disk.scalers_json[1]).val.v[key]
       IN  conv' = [conv EXCEPT !.applied =
                      <<[key |-> key, x |-> x,
                         scaled |-> json_scaled(entry,
                                      IF key = "candle_scaler" THEN "center_" ELSE "mean_",
                                      x)]>>]
  /\ UNCHANGED <<servervars, prepvars, patvars, train>>

ConvertNext == Convert \/ Verify \/ ScaleWithJson

ConvertSpec == ConvertInit /\ [][ConvertNext]_vars

\* ------------------------------------------------------- train_model
\* train_model: patience = 15
patience == 15
\* train_model(..., warmup_epochs=10)
warmup_epochs == 10
\* `if (epoch + 1) % 5 == 0`: a checkpoint every 5 epochs
CheckpointEvery == 5
\* the largest number of epochs a call is configured with
MaxEpochs == 18
\* how often the training process is killed
MaxKills == 1

\* float comparison a > b: False when one side is nan
FGt(a, b) == ~IsNaN(a) /\ ~IsNaN(b) /\ a > b

\* np.cos(np.pi * num / den) for 0 <= num <= den, in units of 1/ONE, by
\* Bhaskara's rational approximation (1 - 4 p^2) / (1 + p^2) on the first
\* quarter and by symmetry on the second
cos_pi(num, den) ==
  IF 2 * num <= den
  THEN (ONE * (den * den - 4 * num * num)) \div (den * den + num * num)
  ELSE 0 - (ONE * (den * den - 4 * (den - num) * (den - num)))
             \div (den * den + (den - num) * (den - num))

\* create_lr_schedule: lr_lambda(epoch), the factor of initial_lr in units
\* of 1/ONE: linear warmup, then cosine annealing; with total_epochs equal
\* to warmup_epochs the progress is a division by zero
lr_lambda(epoch, total_epochs) ==
  IF epoch < warmup_epochs THEN Ok(((epoch + 1) * ONE) \div warmup_epochs)
  ELSE IF total_epochs = warmup_epochs
  THEN Raise("ZeroDivisionError", "division by zero")
  ELSE Ok((ONE + cos_pi(epoch - warmup_epochs, Abs(total_epochs - warmup_epochs))) \div 2)

\* the validation AUC of the profitable head in epoch e, in units of 1/ONE,
\* for the data sets of the model: it rises every epoch; it is constant;
\* it is 0; it is nan; it rises up to an epoch and falls, or stays, after;
\* it rises once late; it rises every fourth epoch.  An epoch is taken to
\* validate alike in every run of a data set.
Scenarios == 1..8
ValAuc(s, e) ==
  CASE s = 1 -> 5000 + 10 * e
    [] s = 2 -> 5000
    [] s = 3 -> 0
    [] s = 4 -> NaN
    [] s = 5 -> IF e <= 2 THEN 5000 + 10 * e ELSE 4000
    [] s = 6 -> IF e <= 6 THEN 5000 + 10 * e ELSE 5060
    [] s = 7 -> IF e < 12 THEN 4000 ELSE IF e = 12 THEN 6000 ELSE 5000
    [] s = 8 -> IF e % 4 = 0 THEN 5000 + 10 * e ELSE 4000

\* the numbers of epochs train_model is called with
EpochChoices == {3, MaxEpochs}

\* best_model_pytorch.pth left by an earlier training of another model
StaleBest ==
  [epoch |-> 7, model |-> <<ONE, ONE>>, lr |-> ONE, val_auc |-> 8000, history |-> <<>>]

\* train_model up to the loop: the optimizer at initial_lr, the scheduler
\* at its first step, the locals at their initial values; with a
\* checkpoint file the model, the optimizer, start_epoch, best_val_auc and
\* history are taken from it
resumed(t) ==
  LET fresh == [t EXCEPT !.start_epoch = 0, !.epoch = 0, !.best_val_auc = 0,
                         !.patience_counter = 0, !.history = <<>>,
                         !.lr = lr_lambda(0, t.epochs).val, !.last_epoch = 0,
                         !.model = <<>>, !.saves = 0]
  IN  IF t.checkpoint_path = <<>> THEN fresh
      ELSE [fresh EXCEPT !.model = t.checkpoint_path[1].model,
                         !.lr = t.checkpoint_path[1].lr,
                         !.start_epoch = t.checkpoint_path[1].epoch + 1,
                         !.epoch = t.checkpoint_path[1].epoch + 1,
                         !.best_val_auc = t.checkpoint_path[1].best_val_auc,
                         !.history = t.checkpoint_path[1].history]

\* `for epoch in range(start_epoch, epochs)`: the loop is entered or done
entered(t) ==
  [t EXCEPT !.pc = IF t.epoch < t.epochs THEN "loop" ELSE "after_loop"]

\* the loop body from `if val_auc > best_val_auc` to the break: a new best
\* is recorded and saved and the counter reset, else the counter grows
after_validation(t, trained, hist, val_auc, next_lr) ==
  IF FGt(val_auc, t.best_val_auc)
  THEN [t EXCEPT !.model = trained, !.history = hist, !.lr = next_lr,
                 !.last_epoch = t.last_epoch + 1,
                 !.best_val_auc = val_auc, !.patience_counter = 0,
                 !.saves = t.saves + 1,
                 !.best_model_path =
                    <<[epoch |-> t.epoch, model |-> trained, lr |-> next_lr,
                       val_auc |-> val_auc, history |-> hist]>>]
  ELSE [t EXCEPT !.model = trained, !.history = hist, !.lr = next_lr,
                 !.last_epoch = t.last_epoch + 1,
                 !.patience_counter = t.patience_counter + 1]

\* a loop end that never breaks
end_of_body_nobreak(t) ==
  entered([t EXCEPT !.epoch = t.epoch + 1,
                    !.checkpoint_path =
                       IF (t.epoch + 1) % CheckpointEvery = 0
                       THEN <<[epoch |-> t.epoch, model |-> t.model, lr |-> t.lr,
                               best_val_auc |-> t.best_val_auc, history |-> t.history]>>
                       ELSE t.checkpoint_path])

\* the loop body from the break on: with the counter at patience the loop
\* is left; else every fifth epoch writes the checkpoint, and the loop goes
\* on to the next epoch or is done
end_of_body(t) ==
  IF t.patience_counter >= patience THEN [t EXCEPT !.pc = "after_loop"]
  ELSE entered([t EXCEPT !.epoch = t.epoch + 1,
                         !.checkpoint_path =
                            IF (t.epoch + 1) % CheckpointEvery = 0
                            THEN <<[epoch |-> t.epoch, model |-> t.model, lr |-> t.lr,
                                    best_val_auc |-> t.best_val_auc,
                                    history |-> t.history]>>
                            ELSE t.checkpoint_path])

\* one pass of the loop body: train_epoch at the optimizer's rate (the
\* weights are named by the rates they were trained at), validate_epoch,
\* scheduler.step(), the history, then the bookkeeping above
epoch_body(t) ==
  LET trained == Append(t.model, t.lr)
      val_auc == ValAuc(t.scenario, t.epoch)
      step == lr_lambda(t.last_epoch + 1, t.epochs)
  IN  IF ~step.ok THEN [t EXCEPT !.model = trained, !.pc = "raised"]
      ELSE end_of_body(
             after_validation(t, trained,
                              Append(t.history, [val_auc |-> val_auc, lr |-> t.lr]),
                              val_auc, step.val))

\* after the loop: torch.load(best_model_path), which raises without the
\* file, model.load_state_dict, return
loaded_best(t) ==
  IF t.best_model_path = <<>> THEN [t EXCEPT !.pc = "raised"]
  ELSE [t EXCEPT !.model = t.best_model_path[1].model, !.pc = "returned"]

\* a first call of train_model: no checkpoint, and best_model_pytorch.pth
\* absent or left by an earlier training
TrainInit ==
  /\ ServerInit
  /\ disk = [trainingData |-> <<>>, scalers_pkl |-> <<>>, processed_data_npz |-> <<>>,
             scalers_json |-> <<>>]
  /\ prep_pc = "idle"
  /\ dp = DataPreprocessor_init
  /\ prep = [X_combined |-> <<>>, ret |-> <<>>]
  /\ PatternIdle
  /\ ConvertIdle
  /\ \E s \in Scenarios : \E n \in EpochChoices : \E best \in {<<>>, <<StaleBest>>} :
       train = [pc |-> "start", epochs |-> n, scenario |-> s, start_epoch |-> 0,
                epoch |-> 0, best_val_auc |-> 0, patience_counter |-> 0,
                history |-> <<>>, lr |-> 0, last_epoch |-> 0, model |-> <<>>,
                kills |-> 0, best_model_path |-> best, saves |-> 0,
                checkpoint_path |-> <<>>]

\* train_model is called, for the first time or after the process was
\* killed, and reaches its loop
Begin ==
  /\ train.pc \in {"start", "killed"}
  /\ train' = entered(resumed(train))
  /\ UNCHANGED <<servervars, prepvars, patvars, conv>>

\* one epoch
Epoch ==
  /\ train.pc = "loop"
  /\ train' = epoch_body(train)
  /\ UNCHANGED <<servervars, prepvars, patvars, conv>>

\* the best model is loaded and train_model returns
Finish ==
  /\ train.pc = "after_loop"
  /\ train' = loaded_best(train)
  /\ UNCHANGED <<servervars, prepvars, patvars, conv>>

\* the process is killed between two epochs or after the loop; its files
\* stay
Kill ==
  /\ train.pc \in {"loop", "after_loop"}
  /\ train.kills < MaxKills
  /\ train' = [train EXCEPT !.pc = "killed", !.kills = train.kills + 1]
  /\ UNCHANGED <<servervars, prepvars, patvars, conv>>

TrainNext == Begin \/ Epoch \/ Finish \/ Kill

TrainSpec == TrainInit /\ [][TrainNext]_vars

\* a process that is not killed goes on
TrainFairSpec ==
  TrainSpec /\ WF_vars(Begin) /\ WF_vars(Epoch) /\ WF_vars(Finish)

\* ------------------------------------- the server on values of every kind
\* the caller writes a line of the value catalogue
FeedValue ==
  /\ ~closed
  /\ fed < MaxLines
  /\ Len(stdin) < PipeCap
  /\ \E i \in 1..Len(ValueCatalogue) : stdin' = Append(stdin, ValueCatalogue[i])
  /\ fed' = fed + 1
  /\ UNCHANGED <<pc, self, loads, closed, line, history, effects, outbuf, stdout>>
  /\ UNCHANGED <<prepvars, patvars, conv, train>>

ValueNext ==
  Construct \/ FeedValue \/ Close \/ ReadLine \/ EndOfInput \/ LoopBody

ValueSpec == Init /\ [][ValueNext]_vars

\* ------------------------------------------- the pattern calculation run
\* an input file: an example drawn from the candles and contexts above,
\* followed by the examples of a tail; or a file without examples
PatternInit ==
  /\ ServerInit
  /\ disk = [trainingData |-> <<>>, scalers_pkl |-> <<>>, processed_data_npz |-> <<>>,
             scalers_json |-> <<>>]
  /\ prep_pc = "idle"
  /\ dp = DataPreprocessor_init
  /\ prep = [X_combined |-> <<>>, ret |-> <<>>]
  /\ ConvertIdle
  /\ TrainIdle
  /\ pat_pc = "start"
  /\ \/ input_file = [examples |-> <<>>]
     \/ \E n \in HistoryLengths : \E earlier \in EarlierCandles :
        \E prev \in PrevCandles : \E last \in LastCandles :
        \E context \in TokenContexts : \E tail \in FileTails :
          input_file =
            [examples |->
               <<[candles |-> History(n, earlier, prev, last), context |-> context]>>
               \o tail]
  /\ pat_examples = <<>>
  /\ processed = 0
  /\ output_file = <<>>

\* process_training_data up to the loop: json.load, data.get('examples', data)
LoadExamples ==
  /\ pat_pc = "start"
  /\ pat_examples' = input_file.examples
  /\ processed' = 0
  /\ pat_pc' = "loop"
  /\ UNCHANGED <<input_file, output_file>>
  /\ UNCHANGED <<servervars, prepvars, conv, train>>

\* a loop body that skips an example on which detect_candlestick_patterns
\* raised and goes on
Patterned_skip(patterns) ==
  /\ pat_examples' = IF patterns.ok
                     THEN [pat_examples EXCEPT ![processed + 1] =
                             with_patterns(pat_examples[processed + 1], patterns.val)]
                     ELSE pat_examples
  /\ processed' = processed + 1
  /\ pat_pc' = "loop"

\* the state after the loop body, patterns being what
\* detect_candlestick_patterns gave
Patterned(patterns) ==
  IF patterns.ok
  THEN /\ pat_examples' = [pat_examples EXCEPT ![processed + 1] =
                             with_patterns(pat_examples[processed + 1], patterns.val)]
       /\ processed' = processed + 1
       /\ pat_pc' = "loop"
  ELSE /\ pat_pc' = "failed"
       /\ UNCHANGED <<pat_examples, processed>>

\* process_training_data: one turn of `for i, example in enumerate(examples)`
ProcessExample ==
  /\ pat_pc = "loop"
  /\ processed < Len(pat_examples)
  /\ Patterned(detect_candlestick_patterns(
                 Expand(pat_examples[processed + 1].candles, 1),
                 pat_examples[processed + 1].context))
  /\ UNCHANGED <<input_file, output_file>>
  /\ UNCHANGED <<servervars, prepvars, conv, train>>

\* process_training_data after the loop: examples[0]['patterns'] raises
\* IndexError for an empty list; else the output file is written
SavePatterns ==
  /\ pat_pc = "loop"
  /\ processed = Len(pat_examples)
  /\ IF pat_examples = <<>>
     THEN pat_pc' = "failed" /\ UNCHANGED output_file
     ELSE pat_pc' = "done" /\ output_file' = <<[examples |-> pat_examples]>>
  /\ UNCHANGED <<input_file, pat_examples, processed>>
  /\ UNCHANGED <<servervars, prepvars, conv, train>>

PatternNext == LoadExamples \/ ProcessExample \/ SavePatterns

PatternSpec == PatternInit /\ [][PatternNext]_vars

\* ------------------------------------------------- vocabulary of the claims
IsBlank(l) == strip(l).kind = "empty"
ParseFails(l) == strip(l).kind = "garbage"
IsObject(l) == strip(l).kind = "json" /\ strip(l).doc.t = "object"
Fields(l) == strip(l).doc.v
Has(l, key) == key \in DOMAIN Fields(l)

IsMatrix(v, r, c) ==
  /\ v.nd = 2
  /\ Rows(v.a) = r
  /\ \A i \in 1..Len(v.a) : Len(v.a[i].row) = c
IsVector(v, n) == v.nd = 1 /\ Len(v.a) = n

\* some field that is present has the wrong shape
ShapeInvalid(l) ==
  /\ IsObject(l)
  /\ \/ Has(l, "candles") /\ ~IsMatrix(Fields(l).candles, W, NCANDLE)
     \/ Has(l, "context") /\ ~IsVector(Fields(l).context, NCONTEXT)
     \/ Has(l, "indicators") /\ ~IsVector(Fields(l).indicators, NINDICATORS)
     \/ Has(l, "patterns") /\ ~IsVector(Fields(l).patterns, NPATTERNS)

\* all four fields are there with the documented shapes
WellShaped(l) ==
  /\ IsObject(l)
  /\ \A key \in {"candles", "context", "indicators", "patterns"} : Has(l, key)
  /\ ~ShapeInvalid(l)

\* a well-shaped request with an infinite number in a scaled field
TransformFails(l) ==
  /\ WellShaped(l)
  /\ \/ \E i \in 1..Len(Fields(l).candles.a) : Inf \in Range(Fields(l).candles.a[i].row)
     \/ Inf \in Range(Fields(l).context.a)
     \/ Inf \in Range(Fields(l).indicators.a)

\* the lines whose handling is complete
Handled == 1..Len(effects)
Answered(k) == effects[k].out # 0 /\ effects[k].out <= Len(stdout)
ResponseTo(k) == stdout[effects[k].out].text.doc
IsError(r) == "error" \in DOMAIN r
ModelFailed(k) == effects[k].invocations = 1 /\ effects[k].returned = <<>>

IsFailClosed(r) ==
  /\ IsError(r)
  /\ r.profitable = 0
  /\ r.max_profit = 0
  /\ r.rug_risk = ONE
  /\ r.confidence = 0

\* C1: every line on which JSON parsing, shape validation, a scaler
\* transform or the model invocation fails is answered by a response that
\* has an error field and exactly profitable=0.0, max_profit=0.0,
\* rug_risk=1.0, confidence=0.0.
C1_FailClosed ==
  \A k \in Handled :
    (\/ ParseFails(history[k])
     \/ ShapeInvalid(history[k])
     \/ TransformFails(history[k])
     \/ ModelFailed(k))
    => Answered(k) /\ IsFailClosed(ResponseTo(k))

\* a parse failure, a shape failure and a transform failure have all been
\* answered in one run
C1_Witness ==
  /\ \E k \in Handled : ParseFails(history[k]) /\ Answered(k) /\ IsFailClosed(ResponseTo(k))
  /\ \E k \in Handled : ShapeInvalid(history[k]) /\ Answered(k) /\ IsFailClosed(ResponseTo(k))
  /\ \E k \in Handled : TransformFails(history[k]) /\ effects[k].transforms > 0
                        /\ Answered(k) /\ IsFailClosed(ResponseTo(k))

\* a request with the documented shapes and finite numbers only
WellFormed(l) ==
  /\ WellShaped(l)
  /\ \A i \in 1..Len(Fields(l).candles.a) :
       \A x \in Range(Fields(l).candles.a[i].row) : IsFinite(x)
  /\ \A key \in {"context", "indicators", "patterns"} :
       \A x \in Range(Fields(l)[key].a) : IsFinite(x)

NonBlankCount(k) == Cardinality({i \in 1..k : ~IsBlank(history[i])})

\* C3 as stated: every line read is answered by exactly one response line,
\* the k-th response answering the k-th line.
C3_OnePerLine ==
  /\ Len(stdout) = Len(effects)
  /\ \A k \in Handled : effects[k].out = k

\* C3 as amended: every line read that is not blank is answered by
\* exactly one response line and a blank line by none; the k-th response
\* answers the k-th line that is not blank.
C3_OnePerNonBlankLine ==
  /\ Len(stdout) = NonBlankCount(Len(effects))
  /\ \A k \in Handled :
       effects[k].out = IF IsBlank(history[k]) THEN 0 ELSE NonBlankCount(k)

\* a blank line was read between two answered lines
C3_Witness ==
  /\ Len(effects) = 3
  /\ ~IsBlank(history[1]) /\ IsBlank(history[2]) /\ ParseFails(history[3])
  /\ Len(stdout) = 2
  /\ effects[3].out = 2

\* C4: serving is sequential: nothing is left unflushed when the loop
\* goes on, the one line in flight is the line the body is working on,
\* every response of a handled line is in the output, responses come in
\* the order of their lines, and every response in the output is whole.
C4_Sequential ==
  /\ outbuf = <<>>
  /\ Len(history) - Len(effects) = IF pc = "body" THEN 1 ELSE 0
  /\ \A k \in Handled : effects[k].out # 0 => effects[k].out <= Len(stdout)
  /\ \A j, k \in Handled :
       j < k /\ effects[j].out # 0 /\ effects[k].out # 0
       => effects[j].out < effects[k].out
  /\ \A i \in 1..Len(stdout) :
       /\ stdout[i].end = "\n"
       /\ {"profitable", "max_profit", "rug_risk", "confidence"}
            \subseteq DOMAIN stdout[i].text.doc

\* the pipe was closed while a request is in flight, the next line is
\* waiting unread and an earlier response is out
C4_Witness ==
  /\ pc = "body"
  /\ closed
  /\ stdin # <<>>
  /\ Len(stdout) >= 1

\* the handled lines that were answered without an error field
Scored(k) == Answered(k) /\ ~IsError(ResponseTo(k))

\* the line test_inference.py prints
IsExample(l) == strip(l) = JsonText(example_input)

\* C5: in a response without error, profitable, max_profit and rug_risk
\* are the three values the model call returned, unchanged; when the model
\* returns (0.7, 4.0, 0.05) for the documented example the response is
\* profitable=0.7, max_profit=4.0, rug_risk=0.05, confidence=0.65.
C5_PassThrough ==
  \A k \in Handled :
    Scored(k) =>
      /\ ResponseTo(k).profitable = effects[k].returned[1]
      /\ ResponseTo(k).max_profit = effects[k].returned[2]
      /\ ResponseTo(k).rug_risk = effects[k].returned[3]
      /\ (IsExample(history[k]) /\ effects[k].returned = <<7000, 4 * ONE, 500>>)
           => ResponseTo(k).confidence = 6500

InUnit(x) == IsFinite(x) /\ 0 <= x /\ x <= ONE
Dist(x) == IF x < HALF THEN HALF - x ELSE x - HALF

\* C6: in a response without error, profitable, rug_risk and confidence
\* lie in [0, 1] and confidence is
\* (|profitable - 0.5| * 2 + |rug_risk - 0.5| * 2) / 2 of that response.
C6_ConfidenceInUnit ==
  \A k \in Handled :
    Scored(k) =>
      /\ InUnit(ResponseTo(k).profitable)
      /\ InUnit(ResponseTo(k).rug_risk)
      /\ InUnit(ResponseTo(k).confidence)
      /\ ResponseTo(k).confidence =
           (Dist(ResponseTo(k).profitable) * 2 + Dist(ResponseTo(k).rug_risk) * 2) \div 2

\* C7: a request with a field of the wrong shape gets the fail-closed
\* error response, and handling it calls neither a scaler transform nor
\* the model.
C7_ShapeRejected ==
  \A k \in Handled :
    ShapeInvalid(history[k]) =>
      /\ Answered(k)
      /\ IsFailClosed(ResponseTo(k))
      /\ effects[k].transforms = 0
      /\ effects[k].invocations = 0

\* requests with 99 candles, with 6 indicators and with 7 patterns have
\* been rejected in one run
C7_Witness ==
  /\ \E k \in Handled : /\ IsObject(history[k])
                        /\ ~IsMatrix(Fields(history[k]).candles, W, NCANDLE)
                        /\ IsFailClosed(ResponseTo(k)) /\ effects[k].transforms = 0
  /\ \E k \in Handled : /\ IsObject(history[k])
                        /\ ~IsVector(Fields(history[k]).indicators, NINDICATORS)
                        /\ IsFailClosed(ResponseTo(k)) /\ effects[k].transforms = 0
  /\ \E k \in Handled : /\ IsObject(history[k]) /\ Has(history[k], "patterns")
                        /\ ~IsVector(Fields(history[k]).patterns, NPATTERNS)
                        /\ IsFailClosed(ResponseTo(k)) /\ effects[k].invocations = 0

\* C8: two lines carrying the same request get the same response, wherever
\* they stand in the input and whatever was handled before or between.
C8_Deterministic ==
  \A j, k \in Handled :
    (Answered(j) /\ Answered(k) /\ strip(history[j]) = strip(history[k]))
      => ResponseTo(j) = ResponseTo(k)

\* the same well-formed request was scored twice with a request of
\* another kind handled in between
C8_Witness ==
  /\ Len(effects) = 3
  /\ WellFormed(history[1])
  /\ strip(history[1]) = strip(history[3])
  /\ strip(history[2]) # strip(history[1])
  /\ Scored(1) /\ Scored(3)
  /\ ResponseTo(1) = ResponseTo(3)

\* C9: the model and the scalers are loaded once, by the constructor,
\* before the first line is read, and handling a line, successfully or
\* not, leaves self.model and self.scalers unchanged.
C9_LoadedOnce ==
  /\ [](pc = "new" => loads = [model |-> 0, scalers |-> 0] /\ history = <<>>)
  /\ [](pc # "new" => loads = [model |-> 1, scalers |-> 1])
  /\ [][pc # "new" => self' = self]_vars

\* a scored request and a rejected request have been handled and the
\* server still holds what the constructor loaded
C9_Witness ==
  /\ pc = "done"
  /\ \E k \in Handled : Scored(k) /\ effects[k].transforms = 3
  /\ \E k \in Handled : Answered(k) /\ IsError(ResponseTo(k))
  /\ self = InferenceServer_init(TrainedCheckpoint, ScalersPkl)

\* the examples of the data file
Examples == IF disk.trainingData = <<>> THEN <<>> ELSE disk.trainingData[1].examples

\* value x of feature f as the scaler stores it: (x - location) / scale
ScaledBy(scaler, f, x) ==
  (IF scaler.type = "RobustScaler" THEN (x - scaler.center_[f]) * ONE
   ELSE (x - scaler.mean_[f]) * ONE) \div scaler.scale_[f]

\* row has the layout of the combined vector of the example: five scaled
\* context features, five scaled indicators, then the eight patterns as
\* they are (zeros for an example without patterns)
HasLayout(row, scalers, example) ==
  /\ Len(row) = 18
  /\ row[1] = ScaledBy(scalers.context_scaler, 1, example.context.liquidity)
  /\ row[2] = ScaledBy(scalers.context_scaler, 2, example.context.marketCap)
  /\ row[3] = ScaledBy(scalers.context_scaler, 3, example.context.holders)
  /\ row[4] = ScaledBy(scalers.context_scaler, 4, example.context.age)
  /\ row[5] = ScaledBy(scalers.context_scaler, 5, example.context.volume24h)
  /\ row[6] = ScaledBy(scalers.indicator_scaler, 1, example.indicators.rsi)
  /\ row[7] = ScaledBy(scalers.indicator_scaler, 2, example.indicators.macd)
  /\ row[8] = ScaledBy(scalers.indicator_scaler, 3, example.indicators.ema_fast)
  /\ row[9] = ScaledBy(scalers.indicator_scaler, 4, example.indicators.ema_slow)
  /\ row[10] = ScaledBy(scalers.indicator_scaler, 5, example.indicators.bbands_width)
  /\ IF "patterns" \in DOMAIN example
     THEN /\ row[11] = (IF example.patterns.has_bullish_pin THEN ONE ELSE 0)
          /\ row[12] = (IF example.patterns.has_bearish_pin THEN ONE ELSE 0)
          /\ row[13] = (IF example.patterns.has_bullish_engulfing THEN ONE ELSE 0)
          /\ row[14] = (IF example.patterns.has_bearish_engulfing THEN ONE ELSE 0)
          /\ row[15] = example.patterns.wick_rejection_ratio
          /\ row[16] = example.patterns.body_to_range_ratio
          /\ row[17] = example.patterns.pattern_confidence
          /\ row[18] = example.patterns.context_score
     ELSE \A j \in 11..18 : row[j] = 0

\* line k was the request of example i, and preprocess built its vector
ServedExample(k, i) ==
  /\ k \in 1..Len(effects)
  /\ i \in 1..Len(Examples)
  /\ history[k].body = JsonText(request_of(Examples[i]))
  /\ effects[k].combined # <<>>

\* C10: the combined vector of an example has the same layout offline and
\* at serving time: in every row of the array load_and_preprocess builds,
\* and in every vector preprocess builds for the request of an example,
\* positions 0-4 are the scaled context, 5-9 the scaled indicators and
\* 10-17 the unscaled patterns in the order bullish pin, bearish pin,
\* bullish engulfing, bearish engulfing, wick rejection ratio,
\* body-to-range ratio, pattern confidence, context score.
C10_SameLayout ==
  /\ prep.X_combined # <<>> =>
       /\ Len(prep.X_combined) = Len(Examples)
       /\ \A i \in 1..Len(Examples) : HasLayout(prep.X_combined[i], dp, Examples[i])
  /\ \A k \in 1..Len(effects) : \A i \in 1..Len(Examples) :
       ServedExample(k, i) => HasLayout(effects[k].combined, self.scalers, Examples[i])

\* both assemblies have run on one example that has patterns, whose flags
\* and ratios tell every position from every other
C10_Witness ==
  /\ prep.X_combined # <<>>
  /\ \E k \in 1..Len(effects) : \E i \in 1..Len(Examples) :
       /\ ServedExample(k, i)
       /\ "patterns" \in DOMAIN Examples[i]
       /\ effects[k].combined = prep.X_combined[i]
       /\ effects[k].invocations = 1

\* the rows of the examples an index array selects, as the arrays of
\* load_and_preprocess hold them before scaling
TrainCandles(index) ==
  reshape_flat([k \in 1..Len(index) |-> extract_candles(Examples[index[k]])], 1)
TrainContext(index) == [k \in 1..Len(index) |-> extract_context(Examples[index[k]])]
TrainIndicators(index) ==
  [k \in 1..Len(index) |-> extract_indicators(Examples[index[k]])]

\* C11: the statistics of the three scalers are computed from the examples
\* of the training partition only: once load_and_preprocess has returned
\* its partitions, each fitted scaler is the one a fit on the rows of
\* train_idx gives, so no validation or test example contributes to it.
C11_FitOnTrainOnly ==
  prep.ret # <<>> =>
    /\ dp.candle_scaler = RobustScaler_fit(TrainCandles(prep.ret.train_idx))
    /\ dp.context_scaler = StandardScaler_fit(TrainContext(prep.ret.train_idx))
    /\ dp.indicator_scaler = StandardScaler_fit(TrainIndicators(prep.ret.train_idx))


\* ------------------------------------------------ the pattern calculator
\* the candles and the context the k-th example of the input file holds
CandlesOf(k) == Expand(input_file.examples[k].candles, 1)
ContextOf(k) == input_file.examples[k].context
LastOf(k) == CandlesOf(k)[Len(CandlesOf(k))]
PrevOf(k) == CandlesOf(k)[Len(CandlesOf(k)) - 1]

\* detect_candlestick_patterns returned for the k-th example, and what it
\* returned
Calculated(k) == k \in 1..processed
PatternsOf(k) == pat_examples[k].patterns

\* detect_candlestick_patterns raised on the k-th example
FailedAt(k) == pat_pc = "failed" /\ pat_examples # <<>> /\ k = processed + 1

\* the flags false, the ratios, the confidence and the score 0
IsDefault(p) ==
  /\ ~p.has_bullish_pin /\ ~p.has_bearish_pin
  /\ ~p.has_bullish_engulfing /\ ~p.has_bearish_engulfing
  /\ p.wick_rejection_ratio = 0 /\ p.body_to_range_ratio = 0
  /\ p.pattern_confidence = 0 /\ p.context_score = 0

\* C12: for an example of 0 or 1 candles detect_candlestick_patterns
\* returns the default result (flags false, ratios, confidence and context
\* score 0) whatever the token context is, and does not raise.
C12_ShortDefault ==
  \A k \in 1..Len(input_file.examples) :
    Len(CandlesOf(k)) < 2 =>
      /\ ~FailedAt(k)
      /\ Calculated(k) => IsDefault(PatternsOf(k))

\* a single candle with a liquidity above the higher threshold got the
\* default
C12_Witness ==
  /\ Calculated(1)
  /\ Len(CandlesOf(1)) = 1
  /\ "liquidity" \in DOMAIN ContextOf(1) /\ ContextOf(1).liquidity > 500
  /\ IsDefault(PatternsOf(1))


\* the candle is a well-formed OHLC record: low and high bound open and close
WellFormedCandle(c) == c.low <= Min2(c.open, c.close) /\ Max2(c.open, c.close) <= c.high

\* the ranges of the three numbers of a result
InRanges(p) ==
  /\ 0 <= p.wick_rejection_ratio /\ p.wick_rejection_ratio <= 10 * ONE
  /\ 0 <= p.body_to_range_ratio /\ p.body_to_range_ratio <= ONE
  /\ 0 <= p.pattern_confidence /\ p.pattern_confidence <= ONE

BodyOf(c) == IF c.close >= c.open THEN c.close - c.open ELSE c.open - c.close
UpperWickOf(c) == c.high - (IF c.close >= c.open THEN c.close ELSE c.open)
LowerWickOf(c) == (IF c.close <= c.open THEN c.close ELSE c.open) - c.low
TotalRangeOf(c) == c.high - c.low

\* body > 0.6 * prevBody and body / totalRange > 0.6
BodyConditions(c, prev) ==
  /\ 10 * BodyOf(c) > 6 * BodyOf(prev)
  /\ TotalRangeOf(c) > 0 /\ 10 * BodyOf(c) > 6 * TotalRangeOf(c)

\* the flags of the result p are those the rules give for the last candle c
\* after prev
FlagsByRule(p, c, prev) ==
  /\ p.has_bullish_pin <=> (LowerWickOf(c) > 2 * BodyOf(c) /\ c.close > c.open)
  /\ p.has_bearish_pin <=> (UpperWickOf(c) > 2 * BodyOf(c) /\ c.close < c.open)
  /\ p.has_bullish_engulfing <=> (c.close > c.open /\ BodyConditions(c, prev))
  /\ p.has_bearish_engulfing <=> (c.close < c.open /\ BodyConditions(c, prev))

AnyBullish(p) == p.has_bullish_pin \/ p.has_bullish_engulfing
AnyBearish(p) == p.has_bearish_pin \/ p.has_bearish_engulfing

\* C14: each flag of a result is set exactly when its rule holds on the
\* last candle; no result has a bullish and a bearish flag; a last candle
\* with close = open sets no flag.
C14_FlagsByRule ==
  \A k \in 1..Len(input_file.examples) :
    (Calculated(k) /\ Len(CandlesOf(k)) >= 2) =>
      /\ FlagsByRule(PatternsOf(k), LastOf(k), PrevOf(k))
      /\ ~(AnyBullish(PatternsOf(k)) /\ AnyBearish(PatternsOf(k)))
      /\ LastOf(k).close = LastOf(k).open =>
           ~AnyBullish(PatternsOf(k)) /\ ~AnyBearish(PatternsOf(k))

\* a bullish last candle with a lower wick of 3 times its body and no upper
\* wick has the bullish pin flag and not the bearish one, in a file whose
\* first example has a bearish engulfing
C14_Witness ==
  /\ Len(input_file.examples) = 2 /\ Calculated(2)
  /\ LastOf(2).close > LastOf(2).open
  /\ LowerWickOf(LastOf(2)) = 3 * BodyOf(LastOf(2))
  /\ UpperWickOf(LastOf(2)) = 0
  /\ PatternsOf(2).has_bullish_pin /\ ~PatternsOf(2).has_bearish_pin
  /\ PatternsOf(1).has_bearish_engulfing


\* the largest member of a set of confidences, 0 for the empty set
MaxIn(S) == IF S = {} THEN 0 ELSE CHOOSE m \in S : \A x \in S : x <= m

\* min(60 + (wick / totalRange * 100) * 0.3, 80) / 100, where the quotient
\* has a value
UnguardedPin(wick, range) ==
  IF range > 0 THEN Min2(6000 + (wick * 3000) \div range, 8000)
  ELSE Min2(6000 - (wick * 3000) \div (0 - range), 8000)

\* the same for totalRange > 0, and 0.60 otherwise
GuardedPin(wick, range) ==
  IF range > 0 THEN Min2(6000 + (wick * 3000) \div range, 8000) ELSE 6000

\* the candidates of the rules that match the last candle c after prev:
\* engulfing rules give 0.65, pin rules what bullish and bearish are
CandidatesOfMatched(c, prev, bullish, bearish) ==
  (IF LowerWickOf(c) > 2 * BodyOf(c) /\ c.close > c.open THEN {bullish} ELSE {})
  \cup (IF UpperWickOf(c) > 2 * BodyOf(c) /\ c.close < c.open THEN {bearish} ELSE {})
  \cup (IF c.close # c.open /\ BodyConditions(c, prev) THEN {6500} ELSE {})

\* C15 as stated: pattern_confidence is the maximum of the candidates of
\* the matched rules, a pin rule giving
\* min(60 + (wick/totalRange*100)*0.3, 80)/100 and an engulfing rule 0.65,
\* and 0 when no rule matched (checked where wick/totalRange has a value).
C15_MaxOfCandidates ==
  \A k \in 1..Len(input_file.examples) :
    (Calculated(k) /\ Len(CandlesOf(k)) >= 2 /\ TotalRangeOf(LastOf(k)) # 0) =>
      PatternsOf(k).pattern_confidence =
        MaxIn(CandidatesOfMatched(LastOf(k), PrevOf(k),
                UnguardedPin(LowerWickOf(LastOf(k)), TotalRangeOf(LastOf(k))),
                UnguardedPin(UpperWickOf(LastOf(k)), TotalRangeOf(LastOf(k)))))

\* C15, amended: pattern_confidence is the maximum of the candidates of the
\* matched rules, a pin rule giving
\* min(60 + (wick/totalRange*100)*0.3, 80)/100 when totalRange > 0 and 0.60
\* otherwise, an engulfing rule 0.65, and 0 when no rule matched; so an
\* unmatched rule changes nothing and the order of the rules is immaterial.
C15_MaxOfGuardedCandidates ==
  \A k \in 1..Len(input_file.examples) :
    (Calculated(k) /\ Len(CandlesOf(k)) >= 2) =>
      PatternsOf(k).pattern_confidence =
        MaxIn(CandidatesOfMatched(LastOf(k), PrevOf(k),
                GuardedPin(LowerWickOf(LastOf(k)), TotalRangeOf(LastOf(k))),
                GuardedPin(UpperWickOf(LastOf(k)), TotalRangeOf(LastOf(k)))))

\* a pin and an engulfing rule matched the last candle and the confidence
\* is the larger candidate, that of the pin
C15_Witness ==
  /\ Calculated(1)
  /\ Len(CandlesOf(1)) >= 2
  /\ PatternsOf(1).has_bullish_pin /\ PatternsOf(1).has_bullish_engulfing
  /\ GuardedPin(LowerWickOf(LastOf(1)), TotalRangeOf(LastOf(1))) > 6500
  /\ PatternsOf(1).pattern_confidence =
       GuardedPin(LowerWickOf(LastOf(1)), TotalRangeOf(LastOf(1)))


\* C16: calculate_context_score returns a value in [0, 1] for every candle
\* sequence and token context it is called with (sequences shorter than 20
\* candles and sequences whose 20th-from-last close is 0 included) and
\* never fails with an error.
C16_ScoreInRange ==
  \A k \in 1..Len(input_file.examples) :
    Len(CandlesOf(k)) >= 2 =>
      /\ ~FailedAt(k)
      /\ Calculated(k) =>
           0 <= PatternsOf(k).context_score /\ PatternsOf(k).context_score <= ONE

\* the extremes of the last 20 candles
HighestHigh(recent) == MaxIn({recent[i].high : i \in 1..20})
LowestLow(recent) == 0 - MaxIn({0 - recent[i].low : i \in 1..20})

\* the trend term for the closes first and last of the last 20 candles,
\* priceChange being (last - first) / first * 100 with first > 0
TrendTerm(first, last) ==
  IF (last - first) * 100 > 10 * first THEN 3000
  ELSE IF last > first THEN 1500
  ELSE IF (last - first) * 100 < 0 - 10 * first THEN 1000
  ELSE 0

\* the position term for (close - low) / (high - low) with high > low
PositionTerm(close, low, high) ==
  IF high = low THEN 0
  ELSE IF (close - low) * 100 < 20 * (high - low) THEN 2500
  ELSE IF (close - low) * 100 > 90 * (high - low) THEN 2000
  ELSE 0

\* the liquidity term, liquidity in 1e3, a missing liquidity counting as 0
LiquidityTerm(context) ==
  IF "liquidity" \notin DOMAIN context THEN 0
  ELSE IF context.liquidity > 500 THEN 2000
  ELSE IF context.liquidity > 100 THEN 1000
  ELSE 0

\* trend + position + liquidity for the last 20 candles
TermsOfRecent(recent, context) ==
  TrendTerm(recent[1].close, recent[20].close)
  + PositionTerm(recent[20].close, LowestLow(recent), HighestHigh(recent))
  + LiquidityTerm(context)

\* min(trend + position + liquidity, 1.0) for a sequence of candles
ScoreByTerms(candles, context) ==
  IF Len(candles) < 20 THEN Min2(LiquidityTerm(context), ONE)
  ELSE Min2(TermsOfRecent(SubSeq(candles, Len(candles) - 19, Len(candles)), context),
            ONE)

\* C17: whenever calculate_context_score returns, it returns
\* min(trend + position + liquidity, 1.0): liquidity 0.20 above 500000,
\* 0.10 above 100000, else 0 (0 when missing); trend and position 0 for
\* fewer than 20 candles and else computed over the last 20 candles only,
\* trend 0.30 / 0.15 / 0.10 / 0 by priceChange > 10, > 0, < -10, position
\* 0.25 below 0.20, 0.20 above 0.90, else 0, and 0 when the highest high
\* equals the lowest low.
C17_ScoreByTerms ==
  \A k \in 1..Len(input_file.examples) :
    (Calculated(k) /\ Len(CandlesOf(k)) >= 2) =>
      PatternsOf(k).context_score = ScoreByTerms(CandlesOf(k), ContextOf(k))

\* a history of more than 20 candles, older candle included, got the three
\* terms 0.30, 0.20 and 0.10 from its last 20 candles and its liquidity
C17_Witness ==
  /\ Calculated(1)
  /\ Len(CandlesOf(1)) > 20
  /\ LastOf(1).close > PrevOf(1).close
  /\ LastOf(1).close = LastOf(1).high
  /\ ContextOf(1) = [liquidity |-> 101, holders |-> 10]
  /\ TermsOfRecent(SubSeq(CandlesOf(1), Len(CandlesOf(1)) - 19, Len(CandlesOf(1))),
                   ContextOf(1)) = 6000
  /\ PatternsOf(1).context_score = 6000


\* the example has no `patterns` field
WithoutPatterns(example) == "patterns" \notin DOMAIN example

\* the positions of the rows the three sets of load_and_preprocess hold
SplitIndices(ret) ==
  {ret.train_idx[j] : j \in 1..Len(ret.train_idx)}
  \cup {ret.val_idx[j] : j \in 1..Len(ret.val_idx)}
  \cup {ret.test_idx[j] : j \in 1..Len(ret.test_idx)}

\* C18: once load_and_preprocess has run, every example of the file has
\* its row in the combined array, examples after one without `patterns`
\* included; the row of an example without `patterns` has zeros in its 8
\* pattern positions; and when the sets are returned such an example is in
\* one of them.
C18_MissingPatternsOffline ==
  prep_pc # "start" =>
    /\ Len(prep.X_combined) = Len(Examples)
    /\ \A i \in 1..Len(Examples) :
         WithoutPatterns(Examples[i]) =>
           /\ Len(prep.X_combined[i]) = 18
           /\ \A j \in 11..18 : prep.X_combined[i][j] = 0
           /\ prep.ret # <<>> => i \in SplitIndices(prep.ret)

\* the sets were returned for a file in which an example without
\* `patterns` is followed by another example
C18_Witness ==
  /\ prep.ret # <<>>
  /\ \E i \in 1..Len(Examples) :
       /\ WithoutPatterns(Examples[i])
       /\ i < Len(Examples)
       /\ \A j \in 11..18 : prep.X_combined[i][j] = 0
       /\ i \in SplitIndices(prep.ret)


\* a request without `patterns` whose other three fields are there with
\* the documented shapes
ValidButForPatterns(l) ==
  /\ IsObject(l)
  /\ \A key \in {"candles", "context", "indicators"} : Has(l, key)
  /\ ~Has(l, "patterns")
  /\ ~ShapeInvalid(l)

\* C19: a request that lacks `patterns` but is otherwise valid is assembled
\* with 8 zeros for the patterns and scored by the model: its response is a
\* prediction, not an error response.
C19_MissingPatternsServed ==
  \A k \in Handled :
    ValidButForPatterns(history[k]) =>
      /\ Answered(k)
      /\ ~IsError(ResponseTo(k))
      /\ effects[k].invocations = 1
      /\ effects[k].combined # <<>>
      /\ \A j \in 11..18 : effects[k].combined[j] = 0


\* no entry of a list of scales is 0
NoZero(scale) == \A f \in 1..Len(scale) : scale[f] # 0

\* no stored scale of a scaler is 0 (a scaler not fitted stores none)
NoZeroStored(scaler) == "scale_" \in DOMAIN scaler => NoZero(scaler.scale_)

\* no scale of the three scalers of a preprocessor or of a scalers.pkl is 0
NoZeroScale(scalers) ==
  /\ NoZeroStored(scalers.candle_scaler)
  /\ NoZeroStored(scalers.context_scaler)
  /\ NoZeroStored(scalers.indicator_scaler)

\* no scale value of an exported document is 0
NoZeroExported(text) ==
  \A key \in DOMAIN text.doc.v : NoZero(text.doc.v[key].v.scale_.a)

\* feature f has one value in all rows
IsConstant(rows, f) == \A i \in 1..Len(rows) : rows[i][f] = rows[1][f]
ConstantCandle(f) ==
  \A i \in 1..Len(Examples) : \A r \in 1..Len(extract_candles(Examples[i])) :
    extract_candles(Examples[i])[r].row[f] = extract_candles(Examples[1])[1].row[f]

\* the scale the fit gave to every constant feature is 1
ConstantGetsOne ==
  /\ \A f \in 1..NCANDLE : ConstantCandle(f) => dp.candle_scaler.scale_[f] = 1
  /\ \A f \in 1..NCONTEXT :
       IsConstant([i \in 1..Len(Examples) |-> extract_context(Examples[i])], f)
         => dp.context_scaler.scale_[f] = 1
  /\ \A f \in 1..NINDICATORS :
       IsConstant([i \in 1..Len(Examples) |-> extract_indicators(Examples[i])], f)
         => dp.indicator_scaler.scale_[f] = 1

\* C20: after fitting no stored scale of the candle, context or indicator
\* scaler is 0, a constant feature having the scale 1; so no scale in
\* scalers.pkl, none in the exported scalers.json and none of the scalers
\* the server transforms with is 0.
C20_NoZeroScale ==
  /\ prep_pc # "start" => NoZeroScale(dp) /\ ConstantGetsOne
  /\ disk.scalers_pkl # <<>> => NoZeroScale(disk.scalers_pkl[1])
  /\ disk.scalers_json # <<>> => NoZeroExported(disk.scalers_json[1])
  /\ NoZeroScale(self.scalers)

\* scalers fitted on a file whose features are all constant were saved,
\* exported with scales of 1, and used by the server for a request
C20_Witness ==
  /\ prep_pc = "done"
  /\ \A f \in 1..NCONTEXT :
       IsConstant([i \in 1..Len(Examples) |-> extract_context(Examples[i])], f)
  /\ dp.context_scaler.scale_ = <<1, 1, 1, 1, 1>>
  /\ disk.scalers_json # <<>>
  /\ DOMAIN disk.scalers_json[1].doc.v = {"candle_scaler", "context_scaler", "indicator_scaler"}
  /\ disk.scalers_json[1].doc.v.context_scaler.v.scale_.a = <<1, 1, 1, 1, 1>>
  /\ self.scalers = disk.scalers_pkl[1]
  /\ \E k \in 1..Len(effects) : effects[k].transforms = 3


\* the number of rules whose flag is set in a result
FlagsSet(p) ==
  (IF p.has_bullish_pin THEN 1 ELSE 0) + (IF p.has_bearish_pin THEN 1 ELSE 0)
  + (IF p.has_bullish_engulfing THEN 1 ELSE 0)
  + (IF p.has_bearish_engulfing THEN 1 ELSE 0)

\* C30: for a well-formed last candle no result has a pin flag and an
\* engulfing flag, so at most one rule has contributed to
\* pattern_confidence.
C30_PinExcludesEngulfing ==
  \A k \in 1..Len(input_file.examples) :
    (Calculated(k) /\ Len(CandlesOf(k)) >= 2 /\ WellFormedCandle(LastOf(k))) =>
      /\ ~((PatternsOf(k).has_bullish_pin \/ PatternsOf(k).has_bearish_pin)
           /\ (PatternsOf(k).has_bullish_engulfing \/ PatternsOf(k).has_bearish_engulfing))
      /\ FlagsSet(PatternsOf(k)) <= 1

\* a well-formed bullish candle after a candle without body, which it
\* engulfs, has the pin flag alone and the confidence of the pin
C30_Witness ==
  /\ Calculated(1)
  /\ Len(CandlesOf(1)) >= 2
  /\ WellFormedCandle(LastOf(1))
  /\ PrevOf(1).close = PrevOf(1).open
  /\ PatternsOf(1).has_bullish_pin
  /\ FlagsSet(PatternsOf(1)) = 1
  /\ PatternsOf(1).pattern_confidence = 7800

\* every example of the list has its patterns
AllPatterned(examples) == \A i \in 1..Len(examples) : "patterns" \in DOMAIN examples[i]

\* C23: once detect_candlestick_patterns has raised on an example,
\* process_training_data processes no later example and writes no output
\* file; an output file exists only if every example was processed.
C23_AbortOnFirstError ==
  /\ [](pat_pc = "failed" => output_file = <<>>)
  /\ [](output_file # <<>> =>
          /\ processed = Len(input_file.examples)
          /\ AllPatterned(output_file[1].examples))
  /\ [][pat_pc = "failed" => UNCHANGED patvars]_vars

\* the first of two examples raised: the run has failed with no example
\* processed and nothing written
C23_Witness ==
  /\ pat_pc = "failed"
  /\ Len(pat_examples) = 2
  /\ processed = 0
  /\ ~AllPatterned(pat_examples)
  /\ output_file = <<>>


\* the rows X and y of a partition are those of the examples index names,
\* in its order: scaled candles, combined row and labels of one example
\* at each position
AlignedWith(X, y, index) ==
  /\ Len(X.candles) = Len(index) /\ Len(X.combined) = Len(index) /\ Len(y) = Len(index)
  /\ \A i \in 1..Len(index) :
       /\ X.candles[i] = transform(dp.candle_scaler, extract_candles(Examples[index[i]])).val
       /\ X.combined[i] = prep.X_combined[index[i]]
       /\ y[i] = extract_labels(Examples[index[i]])

\* C28: the train, validation and test partitions load_and_preprocess
\* returns are pairwise disjoint and hold every loaded example exactly
\* once, and at each position of a partition the candles row, the combined
\* row and the label row are those of one example.
C28_Partition ==
  prep.ret # <<>> =>
    /\ SplitIndices(prep.ret) = 1..Len(Examples)
    /\ Len(prep.ret.train_idx) + Len(prep.ret.val_idx) + Len(prep.ret.test_idx)
         = Len(Examples)
    /\ AlignedWith(prep.ret.X_train, prep.ret.y_train, prep.ret.train_idx)
    /\ AlignedWith(prep.ret.X_val, prep.ret.y_val, prep.ret.val_idx)
    /\ AlignedWith(prep.ret.X_test, prep.ret.y_test, prep.ret.test_idx)

\* a training partition of two examples with different labels, and
\* non-empty validation and test partitions
C28_Witness ==
  /\ prep.ret # <<>>
  /\ Len(prep.ret.train_idx) >= 2
  /\ prep.ret.y_train[1] # prep.ret.y_train[2]
  /\ prep.ret.val_idx # <<>> /\ prep.ret.test_idx # <<>>


\* the four numeric fields of a result
HasFourFields(r) == {"profitable", "max_profit", "rug_risk", "confidence"} \subseteq DOMAIN r

\* the error of a response is the text of an exception alone, or has the
\* prefix of one of the two handlers of run
IsBareError(r) == IsError(r) /\ Len(r.error) = 1
HasPrefix(r, prefix) == IsError(r) /\ Len(r.error) = 2 /\ r.error[1] = prefix

\* C29: predict raises for no parsed JSON value (object, array, number,
\* string, null) and returns a result with the four numeric fields; so a
\* line that parses is answered by that result, a failure being reported
\* with the exception text alone as `error`, only a line that does not
\* parse is answered with the `Invalid JSON: ` prefix, no response has the
\* `Inference failed: ` prefix, and the loop is not left.
C29_PredictNeverRaises ==
  /\ pc # "crashed"
  /\ \A k \in Handled :
       ~IsBlank(history[k]) =>
         /\ Answered(k)
         /\ HasFourFields(ResponseTo(k))
         /\ ParseFails(history[k]) <=> HasPrefix(ResponseTo(k), "Invalid JSON: ")
         /\ ~HasPrefix(ResponseTo(k), "Inference failed: ")
         /\ (~ParseFails(history[k]) /\ IsError(ResponseTo(k)))
              => IsBareError(ResponseTo(k))
         /\ ~IsObject(history[k]) /\ ~ParseFails(history[k])
              => IsBareError(ResponseTo(k)) /\ IsFailClosed(ResponseTo(k))

\* an array, a transform failure and a line that is no JSON have been
\* answered in one run, the first two with the bare exception text
C29_Witness ==
  \E i, j, k \in Handled :
    /\ strip(history[i]).kind = "json" /\ strip(history[i]).doc.t = "array"
    /\ IsBareError(ResponseTo(i))
    /\ TransformFails(history[j]) /\ IsBareError(ResponseTo(j))
    /\ ParseFails(history[k]) /\ HasPrefix(ResponseTo(k), "Invalid JSON: ")


\* ------------------------------------------------ the scaler conversion
\* an entry of the export document with its type tag, location array,
\* scale array and feature count, and the variance for a standard scaler
EntryComplete(entry, type, loc) ==
  /\ entry.t = "object"
  /\ {"type", loc, "scale_", "n_features_in_"} \subseteq DOMAIN entry.v
  /\ entry.v.type = type
  /\ entry.v[loc].nd = 1
  /\ entry.v.scale_.nd = 1
  /\ entry.v.n_features_in_.nd = 0
  /\ type = "StandardScaler" => "var_" \in DOMAIN entry.v /\ entry.v.var_.nd = 1

\* a file holding a document with the three complete entries
DocumentComplete(file) ==
  /\ file # <<>>
  /\ LET doc == json_loads(file[1]).val
     IN  /\ doc.t = "object"
         /\ ScalerKeys \subseteq DOMAIN doc.v
         /\ EntryComplete(doc.v.candle_scaler, "RobustScaler", "center_")
         /\ EntryComplete(doc.v.context_scaler, "StandardScaler", "mean_")
         /\ EntryComplete(doc.v.indicator_scaler, "StandardScaler", "mean_")

\* scalers.pkl holds the three scalers
PickleComplete ==
  disk.scalers_pkl # <<>> /\ ScalerKeys \subseteq DOMAIN disk.scalers_pkl[1]

\* C22: whenever convert_scalers returns True, scalers.json holds the three
\* keys candle_scaler, context_scaler and indicator_scaler, each with type
\* tag, center or mean array, scale array and feature count, and with the
\* variance for the two standard scalers; whenever scalers.pkl lacks one of
\* the three scalers, convert_scalers returns False
C22_ExportDocument ==
  conv.convert_ret # <<>> =>
    /\ conv.convert_ret = <<TRUE>> => DocumentComplete(disk.scalers_json)
    /\ ~PickleComplete => conv.convert_ret = <<FALSE>>

C22_Witness ==
  /\ conv.convert_ret = <<TRUE>>
  /\ DocumentComplete(disk.scalers_json)
  /\ disk.scalers_json = <<json_dumps(scaler_json(disk.scalers_pkl[1]))>>

\* a pickle without its indicator scaler was converted: False, and the
\* file written lacks the key
C22_AbsentScaler ==
  /\ disk.scalers_pkl = <<Without(ScalersPkl, "indicator_scaler")>>
  /\ conv.convert_ret = <<FALSE>>
  /\ ~DocumentComplete(disk.scalers_json)

\* scaler.transform of the one row x by the scaler pickled under key
Original(key, x) == transform(disk.scalers_pkl[1][key], <<Run(1, x)>>)

\* the scaled row of an application equals the in-memory transform's
SameAsOriginal(a) ==
  /\ Original(a.key, a.x).ok
  /\ Original(a.key, a.x).val[1].row = a.scaled

NoInfinity(x) == \A j \in 1..Len(x) : ~IsInf(x[j])

PickleScaled(key, samples) ==
  [i \in 1..Min2(3, Len(samples)) |-> Original(key, samples[i]).val[1].row]

\* the values verify_scalers printed are those of the pickled scalers
PrintedAsPickle ==
  LET data == disk.processed_data_npz[1]
  IN  conv.printed =
        <<PickleScaled("candle_scaler", first_timesteps(first5(data.X_test_candles))),
          PickleScaled("context_scaler", first5(data.X_test_context)),
          PickleScaled("indicator_scaler", first5(data.X_test_indicators))>>

\* the parameters of scalers.json are not those of the pickled scalers
ParametersDiffer ==
  /\ disk.scalers_json # <<>>
  /\ json_loads(disk.scalers_json[1]).val # scaler_json(disk.scalers_pkl[1])

\* C24: with the three scalers in scalers.pkl, verify_scalers returns True
\* only when the values scaled with the parameters of scalers.json are the
\* values the pickled scalers give for the same samples, and a document
\* whose parameters differ from the pickled scalers makes it return False
C24_VerifyComparesWithPickle ==
  (conv.verify_ret # <<>> /\ PickleComplete) =>
    /\ conv.verify_ret = <<TRUE>> => PrintedAsPickle
    /\ ParametersDiffer => conv.verify_ret = <<FALSE>>


\* verify_scalers returned True on a document of other parameters, having
\* printed values the pickled scalers do not give
C24_StaleAccepted ==
  /\ conv.verify_ret = <<TRUE>>
  /\ disk.scalers_pkl = <<ScalersPkl>>
  /\ disk.scalers_json = <<json_dumps(scaler_json(OtherPkl))>>
  /\ disk.processed_data_npz = <<SplitNpz(2)>>
  /\ ~PrintedAsPickle


\* ------------------------------------------------------- the training
\* the counter stays below patience inside the loop
TrainTypeOK ==
  /\ train.patience_counter <= patience
  /\ train.pc = "loop" => train.patience_counter < patience /\ train.epoch < train.epochs


\* the validation AUC of the epoch executed last
LastAuc(t) == t.history[Len(t.history)].val_auc

\* this step executes one epoch of the loop up to its bookkeeping
EpochDone ==
  /\ train.pc = "loop"
  /\ train'.pc \in {"loop", "after_loop"}
  /\ Len(train'.history) = Len(train.history) + 1

\* C25: in every epoch whose validation AUC strictly exceeds the best so
\* far the patience counter is reset to 0, in every other epoch it grows by
\* 1; the loop is left in the first epoch in which the counter reaches 15
\* and else when the configured number of epochs is done; so the counter
\* never exceeds 15, the epoch index never exceeds epochs, and a loop that
\* was entered is left
C25_PatienceAndTermination ==
  /\ [][EpochDone =>
          /\ train'.patience_counter =
               IF FGt(LastAuc(train'), train.best_val_auc) THEN 0
               ELSE train.patience_counter + 1
          /\ train'.pc = "after_loop"
               <=> (train'.patience_counter = patience \/ train.epoch + 1 = train.epochs)
          /\ train'.patience_counter = patience => train'.epoch = train.epoch
          /\ train'.patience_counter < patience => train'.epoch = train.epoch + 1]_vars
  /\ [](TrainTypeOK /\ train.epoch <= train.epochs /\ Len(train.history) <= train.epochs)
  /\ (train.pc = "loop") ~> (train.pc # "loop")

\* the loop was left by the break, before the configured number of epochs
C25_Witness ==
  /\ train.pc = "after_loop"
  /\ train.kills = 0
  /\ train.patience_counter = patience
  /\ train.epoch + 1 < train.epochs
  /\ Len(train.history) = train.epoch + 1

\* the file holds the weights of the earliest epoch that reached the
\* highest validation AUC of the history
HoldsBestEpoch(file, h) ==
  /\ file.epoch + 1 \in 1..Len(h)
  /\ h[file.epoch + 1].val_auc = file.val_auc
  /\ Len(file.model) = file.epoch + 1
  /\ \A k \in 1..Len(h) : ~FGt(h[k].val_auc, file.val_auc)
  /\ \A k \in 1..file.epoch : h[k].val_auc # file.val_auc

\* C26: best_val_auc never decreases during a call; an epoch writes the
\* best-model file exactly when its validation AUC strictly exceeds
\* best_val_auc; and when train_model has returned, the model holds the
\* weights of the best-model file, which are those of the earliest epoch
\* with the highest validation AUC seen
C26_BestModelReturned ==
  /\ [][EpochDone =>
          /\ train'.best_val_auc >= train.best_val_auc
          /\ train'.saves = IF FGt(LastAuc(train'), train.best_val_auc)
                             THEN train.saves + 1 ELSE train.saves
          /\ train'.saves = train.saves
               => train'.best_model_path = train.best_model_path
          /\ train'.saves > train.saves
               => train'.best_model_path[1].epoch = train.epoch]_vars
  /\ [](train.pc = "returned" =>
          /\ train.model = train.best_model_path[1].model
          /\ HoldsBestEpoch(train.best_model_path[1], train.history))

\* the parts of C26 that hold: the monotone best_val_auc, the file written
\* exactly on a strict improvement, the returned model being the file's,
\* and, when some epoch of the history improved on 0, the file being that
\* of the best epoch
C26_WhenSomeEpochImproved ==
  /\ [][EpochDone =>
          /\ train'.best_val_auc >= train.best_val_auc
          /\ train'.saves = IF FGt(LastAuc(train'), train.best_val_auc)
                             THEN train.saves + 1 ELSE train.saves
          /\ train'.saves = train.saves
               => train'.best_model_path = train.best_model_path
          /\ train'.saves > train.saves
               => train'.best_model_path[1].epoch = train.epoch]_vars
  /\ [](train.pc = "returned" =>
          /\ train.model = train.best_model_path[1].model
          /\ (\E k \in 1..Len(train.history) : FGt(train.history[k].val_auc, 0))
               => HoldsBestEpoch(train.best_model_path[1], train.history))

\* train_model returned the weights of a file no epoch of its history
\* wrote
C26_StaleReturned ==
  /\ train.pc = "returned"
  /\ train.kills = 0
  /\ train.saves = 0
  /\ Len(train.history) = train.epochs
  /\ \A k \in 1..Len(train.history) : train.history[k].val_auc = 0
  /\ train.model = StaleBest.model

\* the uninterrupted run: n passes of the loop body
RECURSIVE Uninterrupted(_, _)
Uninterrupted(t, n) ==
  IF n = 0 \/ t.pc # "loop" THEN t ELSE Uninterrupted(epoch_body(t), n - 1)

\* the call of the same arguments without a checkpoint file
FreshRun == entered(resumed([train EXCEPT !.checkpoint_path = <<>>]))

\* the run was restarted from a checkpoint
Resumed ==
  train.kills > 0 /\ train.pc \in {"loop", "after_loop"} /\ train.start_epoch > 0

\* C27: a run restarted from a checkpoint is, in its loop, in the state the
\* uninterrupted run has after as many epochs: position in the loop, next
\* epoch index, best_val_auc, history, patience counter and scheduler
\* position are equal, and so is the epoch at which the loop is left
C27_ResumeEqualsUninterrupted ==
  Resumed =>
    LET u == Uninterrupted(FreshRun, Len(train.history))
    IN  /\ train.pc = u.pc
        /\ train.epoch = u.epoch
        /\ train.best_val_auc = u.best_val_auc
        /\ train.history = u.history
        /\ train.patience_counter = u.patience_counter
        /\ train.last_epoch = u.last_epoch

\* what the restart does restore: right after it, the next epoch index,
\* best_val_auc and the history are those of the uninterrupted run
C27_RestoredFields ==
  (Resumed /\ train.epoch = train.start_epoch /\ train.last_epoch = 0) =>
    LET u == Uninterrupted(FreshRun, Len(train.history))
    IN  /\ train.epoch = u.epoch
        /\ train.best_val_auc = u.best_val_auc
        /\ train.history = u.history

\* right after a restart the patience counter and the scheduler are at
\* their initial values, those of the uninterrupted run are not
C27_CounterAndScheduleLost ==
  /\ Resumed
  /\ train.epoch = train.start_epoch
  /\ train.patience_counter = 0
  /\ train.last_epoch = 0
  /\ Uninterrupted(FreshRun, Len(train.history)).patience_counter = 4
  /\ Uninterrupted(FreshRun, Len(train.history)).last_epoch = train.start_epoch

\* the restarted run is past the epoch at which the uninterrupted run stopped
C27_StopsLater ==
  /\ Resumed
  /\ Uninterrupted(FreshRun, Len(train.history)).pc = "after_loop"
  /\ Len(Uninterrupted(FreshRun, Len(train.history)).history) < Len(train.history)

=============================================================================
